---- MODULE Spec2Model ----
(***************************************************************************)
(* Verification model of the argument-ranking core of ideastockexchange:   *)
(*   - pipeline/models/belief_node.py   BeliefNode, ArgumentTree           *)
(*   - pipeline/scoring/reason_rank.py  ReasonRankScorer                   *)
(*   - pipeline/scoring/uniqueness.py   UniquenessChecker                  *)
(*   - backend/algorithms/duplication_scoring.py  DuplicationScorer        *)
(*                                                                         *)
(* Python floats are modelled as exact rationals <<n, d>> (d > 0, lowest   *)
(* terms), so products, sums and comparisons are those of real arithmetic  *)
(* on the metric values the model draws.                                   *)
(***************************************************************************)
EXTENDS Integers, Sequences, FiniteSets, TLC

(* ----------------------------- bounds ---------------------------------- *)
\* number of distinct belief ids the callers use
NumIds == 3
\* number of mutating calls (add / update / score / penalize) in one run
MaxOps == 3
\* number of arguments a caller passes to score_arguments
MaxArgs == 3

(* ------------------------ exact rational arithmetic -------------------- *)
Abs(x) == IF x < 0 THEN -x ELSE x

RECURSIVE GCD(_, _)
GCD(a, b) == IF b = 0 THEN a ELSE GCD(b, a % b)

\* a float value n/d in lowest terms
Rat(n, d) ==
    LET g == GCD(Abs(n), d)
    IN  IF n = 0 THEN <<0, 1>> ELSE <<n \div g, d \div g>>

Zero == <<0, 1>>
One  == <<1, 1>>

\* x * y
RMul(x, y) ==
    LET g1 == GCD(Abs(x[1]), y[2])
        g2 == GCD(Abs(y[1]), x[2])
    IN  IF x[1] = 0 \/ y[1] = 0 THEN Zero
        ELSE <<(x[1] \div g1) * (y[1] \div g2), (x[2] \div g2) * (y[2] \div g1)>>

\* least common denominator of x and y
LCD(x, y) == (x[2] \div GCD(x[2], y[2])) * y[2]

\* x + y
RAdd(x, y) ==
    LET L == LCD(x, y)
    IN  Rat(x[1] * (L \div x[2]) + y[1] * (L \div y[2]), L)

\* x - y
RSub(x, y) == RAdd(x, <<-y[1], y[2]>>)

\* x / y for y # 0
RDiv(x, y) ==
    IF y[1] < 0 THEN RMul(x, <<-y[2], -y[1]>>) ELSE RMul(x, <<y[2], y[1]>>)

\* x < y, x <= y
RLt(x, y) ==
    LET L == LCD(x, y)
    IN  x[1] * (L \div x[2]) < y[1] * (L \div y[2])
RLeq(x, y) == ~RLt(y, x)

\* max(x, y): Python returns the first argument unless the second is larger
RMax(x, y) == IF RLt(x, y) THEN y ELSE x
\* min(x, y)
RMin(x, y) == IF RLt(y, x) THEN y ELSE x

(* ----------------------------- constants ------------------------------- *)
\* pipeline/config.py
MIN_RANK_SCORE == Rat(1, 1000)
DEBUNKED_THRESHOLD == Rat(5, 100)
UNIQUENESS_PENALTY_THRESHOLD == Rat(75, 100)
UNIQUENESS_PENALTY_FACTOR == Rat(3, 10)
\* floor of a penalized uniqueness_score
PENALTY_FLOOR == Rat(1, 100)

\* parent_id = None
None == 0

Ids == 1..NumIds

(* ----------------------------- inputs ---------------------------------- *)
\* side of a BeliefNode
Sides == {"supporting", "weakening"}

\* the record the caller holds for belief_id id (one row of the source sheet):
\* side and the four metrics; the parent column is chosen per call
ProfileOf(id) ==
    CASE id % 4 = 1 -> [side |-> "supporting", truth_score |-> One, linkage_score |-> Rat(1, 2),
                        importance_score |-> One, uniqueness_score |-> One]
      [] id % 4 = 2 -> [side |-> "supporting", truth_score |-> One, linkage_score |-> One,
                        importance_score |-> One, uniqueness_score |-> One]
      [] id % 4 = 3 -> [side |-> "weakening", truth_score |-> Rat(1, 2), linkage_score |-> Rat(1, 2),
                        importance_score |-> Rat(1, 2), uniqueness_score |-> One]
      [] OTHER      -> [side |-> "supporting", truth_score |-> Zero, linkage_score |-> Zero,
                        importance_score |-> Zero, uniqueness_score |-> Zero]

\* rows submitted to the redundancy pass: id 1 arrives marked as a full
\* duplicate (uniqueness 0.0), the others as fully unique
RedundancyProfile(id) ==
    CASE id % 4 = 1 -> [side |-> "supporting", truth_score |-> One, linkage_score |-> One,
                        importance_score |-> One, uniqueness_score |-> Zero]
      [] id % 4 = 2 -> [side |-> "supporting", truth_score |-> One, linkage_score |-> One,
                        importance_score |-> One, uniqueness_score |-> One]
      [] id % 4 = 3 -> [side |-> "weakening", truth_score |-> Rat(1, 2), linkage_score |-> One,
                        importance_score |-> One, uniqueness_score |-> One]
      [] OTHER      -> [side |-> "supporting", truth_score |-> Rat(1, 2), linkage_score |-> Rat(1, 2),
                        importance_score |-> One, uniqueness_score |-> Rat(1, 200)]

\* Scenario C (tests/test_pipeline.py setUp): root 1, supporting leaf 2, weakening leaf 3
ScenarioIds == {1, 2, 3}
ScenarioParent(id) == IF id = 1 THEN None ELSE 1
ScenarioProfile(id) ==
    CASE id = 1 -> [side |-> "supporting", truth_score |-> Rat(8, 10), linkage_score |-> One,
                    importance_score |-> Rat(9, 10), uniqueness_score |-> One]
      [] id = 2 -> [side |-> "supporting", truth_score |-> Rat(9, 10), linkage_score |-> Rat(8, 10),
                    importance_score |-> Rat(85, 100), uniqueness_score |-> One]
      [] OTHER  -> [side |-> "weakening", truth_score |-> Rat(5, 10), linkage_score |-> Rat(6, 10),
                    importance_score |-> Rat(5, 10), uniqueness_score |-> One]

\* keyword arguments of update_and_rescore; NoArg is Python's None default
NoArg == <<0, 0>>
UpdateArgs ==
    { [truth_score |-> Rat(1, 4), linkage_score |-> NoArg,
       importance_score |-> NoArg, uniqueness_score |-> NoArg],
      [truth_score |-> Zero, linkage_score |-> Zero,
       importance_score |-> Zero, uniqueness_score |-> Zero] }

\* similarity values the sibling comparison can return
SimLevels == { Rat(1, 2), Rat(9, 10), One }

(* ------------------------------ state ---------------------------------- *)
VARIABLES
    nodes,      \* ArgumentTree.nodes: belief_id -> BeliefNode
    nodeOrder,  \* insertion order of the keys of ArgumentTree.nodes
    children,   \* ArgumentTree._children: parent_id -> [child ids]
    scored,     \* TRUE when the last mutating call ended in compute_all_scores
    topoOrder,  \* the processing order of the last compute_all_scores pass
    lastOp,     \* the last call and what it returned or raised
    ops,        \* number of mutating calls so far
    cmp,        \* DuplicationScorer: the pair under comparison and compare's result
    sa          \* DuplicationScorer: the caller's argument list, what score_arguments
                \* returned for it (ret) and at the call before (prior), and the
                \* clusters cluster_arguments made of ret

treeVars == <<nodes, nodeOrder, children, scored, topoOrder, lastOp, ops>>
dupVars == <<cmp, sa>>
vars == <<treeVars, dupVars>>

(* -------------------------- BeliefNode --------------------------------- *)
\* BeliefNode(...): computed fields start at 0.0
BeliefNode(id, parent, prof) ==
    [belief_id |-> id, parent_id |-> parent, side |-> prof.side,
     truth_score |-> prof.truth_score, linkage_score |-> prof.linkage_score,
     importance_score |-> prof.importance_score,
     uniqueness_score |-> prof.uniqueness_score,
     reason_rank |-> Zero, propagated_score |-> Zero]

\* compute_base_rank without the MIN_RANK_SCORE floor
compute_base_rank_nofloor(n) ==
    RMul(RMul(RMul(n.truth_score, n.linkage_score), n.importance_score), n.uniqueness_score)

\* BeliefNode.compute_base_rank
compute_base_rank(n) ==
    RMax(RMul(RMul(RMul(n.truth_score, n.linkage_score), n.importance_score),
              n.uniqueness_score),
         MIN_RANK_SCORE)

(* -------------------------- ArgumentTree ------------------------------- *)
\* ArgumentTree.add_node, as (nodes, nodeOrder, children) after the call
add_node_nodes(ns, node) ==
    [i \in (DOMAIN ns) \cup {node.belief_id} |->
        IF i = node.belief_id THEN node ELSE ns[i]]
add_node_order(ns, ord, node) ==
    IF node.belief_id \in DOMAIN ns THEN ord ELSE Append(ord, node.belief_id)
add_node_children(ch, node) ==
    IF node.parent_id # None
    THEN [ch EXCEPT ![node.parent_id] = Append(@, node.belief_id)]
    ELSE ch

\* ArgumentTree.get_children: ids of the children list that are in nodes
RECURSIVE FilterIn(_, _)
FilterIn(seq, S) ==
    IF seq = <<>> THEN <<>>
    ELSE IF Head(seq) \in S THEN <<Head(seq)>> \o FilterIn(Tail(seq), S)
         ELSE FilterIn(Tail(seq), S)
get_children(ns, ch, id) == FilterIn(ch[id], DOMAIN ns)

RECURSIVE FilterSide(_, _, _)
FilterSide(ns, seq, side) ==
    IF seq = <<>> THEN <<>>
    ELSE IF ns[Head(seq)].side = side
         THEN <<Head(seq)>> \o FilterSide(ns, Tail(seq), side)
         ELSE FilterSide(ns, Tail(seq), side)
\* get_supporting_children that selects the wrong side
get_supporting_children_wrong(ns, ch, id) == FilterSide(ns, get_children(ns, ch, id), "weakening")

get_supporting_children(ns, ch, id) == FilterSide(ns, get_children(ns, ch, id), "supporting")
get_weakening_children(ns, ch, id) == FilterSide(ns, get_children(ns, ch, id), "weakening")

\* ArgumentTree.get_root_nodes: nodes.values() with parent_id None, in dict order
RECURSIVE FilterRoots(_, _)
FilterRoots(ns, ord) ==
    IF ord = <<>> THEN <<>>
    ELSE IF ns[Head(ord)].parent_id = None
         THEN <<Head(ord)>> \o FilterRoots(ns, Tail(ord))
         ELSE FilterRoots(ns, Tail(ord))
get_root_nodes(ns, ord) == FilterRoots(ns, ord)

\* ArgumentTree._topo_visit on the traversal state st = [visited, order]
RECURSIVE topo_visit(_, _, _, _), topo_visit_list(_, _, _, _)
topo_visit(ns, ch, id, st) ==
    IF id \in st.visited THEN st
    ELSE LET st1 == [visited |-> st.visited \cup {id}, order |-> st.order]
             st2 == topo_visit_list(ns, ch, ch[id], st1)
         IN  [visited |-> st2.visited, order |-> Append(st2.order, id)]
topo_visit_list(ns, ch, seq, st) ==
    IF seq = <<>> THEN st
    ELSE topo_visit_list(ns, ch, Tail(seq),
            IF Head(seq) \in DOMAIN ns THEN topo_visit(ns, ch, Head(seq), st) ELSE st)

\* ArgumentTree._topo_sort: visit every node of nodes.values() not yet visited
RECURSIVE topo_sort_from(_, _, _, _)
topo_sort_from(ns, ch, ord, st) ==
    IF ord = <<>> THEN st
    ELSE topo_sort_from(ns, ch, Tail(ord), topo_visit(ns, ch, Head(ord), st))
topo_sort(ns, ord, ch) == topo_sort_from(ns, ch, ord, [visited |-> {}, order |-> <<>>]).order

\* sum(c.propagated_score * c.linkage_score for c in kids)
RECURSIVE WeightedSum(_, _)
WeightedSum(ns, kids) ==
    IF kids = <<>> THEN Zero
    ELSE RAdd(RMul(ns[Head(kids)].propagated_score, ns[Head(kids)].linkage_score),
              WeightedSum(ns, Tail(kids)))

\* first pass of compute_all_scores: reason_rank = base rank for every node
base_pass(ns) == [i \in DOMAIN ns |-> [ns[i] EXCEPT !.reason_rank = compute_base_rank(ns[i])]]

\* body of the second-pass loop of compute_all_scores for one belief_id
propagate_one(ns, ch, id) ==
    LET node == ns[id]
        supporting == get_supporting_children(ns, ch, id)
        weakening == get_weakening_children(ns, ch, id)
        impact == WeightedSum(ns, supporting)
        counter_impact == WeightedSum(ns, weakening)
        net_impact == RSub(impact, counter_impact)
        score == RMax(RMul(RMul(RMul(net_impact, node.linkage_score), node.truth_score),
                           node.uniqueness_score),
                      MIN_RANK_SCORE)
    IN  IF supporting = <<>> /\ weakening = <<>>
        THEN [ns EXCEPT ![id].propagated_score = node.reason_rank]
        ELSE [ns EXCEPT ![id].propagated_score = score, ![id].reason_rank = score]

\* second pass of compute_all_scores over the processing order
RECURSIVE propagate(_, _, _)
propagate(ns, ch, order) ==
    IF order = <<>> THEN ns
    ELSE propagate(propagate_one(ns, ch, Head(order)), ch, Tail(order))

\* compute_all_scores that drops the nodes left at the floor
compute_all_scores_prune(ns, ord, ch) ==
    LET r == propagate(base_pass(ns), ch, topo_sort(ns, ord, ch))
    IN  [i \in {j \in DOMAIN r : RLt(MIN_RANK_SCORE, r[j].propagated_score)} |-> r[i]]

\* ArgumentTree.compute_all_scores: the nodes after the call
compute_all_scores(ns, ord, ch) == propagate(base_pass(ns), ch, topo_sort(ns, ord, ch))

\* the insertion step of an ascending sort (reverse=True forgotten)
RECURSIVE InsertAsc(_, _, _)
InsertAsc(ns, sorted, id) ==
    IF sorted = <<>> THEN <<id>>
    ELSE IF RLt(ns[id].propagated_score, ns[Head(sorted)].propagated_score)
         THEN <<id>> \o sorted
         ELSE <<Head(sorted)>> \o InsertAsc(ns, Tail(sorted), id)

\* sorted(seq, key=lambda n: n.propagated_score, reverse=True): stable, descending
RECURSIVE InsertDesc(_, _, _)
InsertDesc(ns, sorted, id) ==
    IF sorted = <<>> THEN <<id>>
    ELSE IF RLt(ns[Head(sorted)].propagated_score, ns[id].propagated_score)
         THEN <<id>> \o sorted
         ELSE <<Head(sorted)>> \o InsertDesc(ns, Tail(sorted), id)
RECURSIVE SortDescFrom(_, _, _)
SortDescFrom(ns, seq, acc) ==
    IF seq = <<>> THEN acc
    ELSE SortDescFrom(ns, Tail(seq), InsertDesc(ns, acc, Head(seq)))
sorted_desc(ns, seq) == SortDescFrom(ns, seq, <<>>)

\* ArgumentTree.get_sorted_children / get_sorted_roots
get_sorted_children(ns, ch, id) == sorted_desc(ns, get_children(ns, ch, id))
get_sorted_roots(ns, ord) == sorted_desc(ns, get_root_nodes(ns, ord))

(* ------------------------- ReasonRankScorer ---------------------------- *)
\* one entry of ReasonRankScorer.get_leaderboard for the root at index i
leaderboard_entry(ns, ch, roots, i) ==
    LET root == ns[roots[i]]
        supporting == get_supporting_children(ns, ch, roots[i])
        weakening == get_weakening_children(ns, ch, roots[i])
        impact == WeightedSum(ns, supporting)
        counter_impact == WeightedSum(ns, weakening)
    IN  [belief_id |-> root.belief_id, propagated_score |-> root.propagated_score,
         rank |-> i, pro_count |-> Len(supporting), con_count |-> Len(weakening),
         impact |-> impact, counter_impact |-> counter_impact,
         net_score |-> RSub(impact, counter_impact),
         is_debunked |-> RLt(root.propagated_score, DEBUNKED_THRESHOLD)]

\* ReasonRankScorer.get_leaderboard (enumerate is 0-based, rank = i + 1)
get_leaderboard(ns, ord, ch) ==
    LET roots == get_sorted_roots(ns, ord)
    IN  [i \in 1..Len(roots) |-> leaderboard_entry(ns, ch, roots, i)]

\* the lookup never reports a missing node
node_missing_never(ns, id) == FALSE

\* update_and_rescore: `node is None` after self.tree.nodes.get(belief_id)
node_missing(ns, id) == id \notin DOMAIN ns

\* the attribute assignments of update_and_rescore
apply_update(node, args) ==
    [node EXCEPT
        !.truth_score = IF args.truth_score # NoArg THEN args.truth_score ELSE @,
        !.linkage_score = IF args.linkage_score # NoArg THEN args.linkage_score ELSE @,
        !.importance_score = IF args.importance_score # NoArg THEN args.importance_score ELSE @,
        !.uniqueness_score = IF args.uniqueness_score # NoArg THEN args.uniqueness_score ELSE @]

(* ------------------------- UniquenessChecker --------------------------- *)
\* the sibling group check_and_penalize builds for one parent_id
siblings_of(ns, ord, ch, parent_id) ==
    IF parent_id = None THEN get_root_nodes(ns, ord) ELSE get_children(ns, ch, parent_id)

\* parent_ids of check_and_penalize whose group has at least 2 siblings
\* (the others hit `continue`)
penalty_groups(ns, ord, ch) ==
    { g \in {ns[i].parent_id : i \in DOMAIN ns} \cup {None} :
        Len(siblings_of(ns, ord, ch, g)) >= 2 }

\* the unordered pairs of nodes the pass compares
sibling_pairs(ns, ord, ch) ==
    UNION { LET sibs == siblings_of(ns, ord, ch, g)
            IN  { {sibs[i], sibs[j]} : i \in 1..Len(sibs), j \in 1..Len(sibs) }
            : g \in penalty_groups(ns, ord, ch) }

\* penalty = 1.0 - (sim - threshold) / (1.0 - threshold) * (1.0 - UNIQUENESS_PENALTY_FACTOR)
penalty_of(sim) ==
    RSub(One,
         RMul(RMul(RSub(sim, UNIQUENESS_PENALTY_THRESHOLD),
                   <<RSub(One, UNIQUENESS_PENALTY_THRESHOLD)[2],
                     RSub(One, UNIQUENESS_PENALTY_THRESHOLD)[1]>>),
              RSub(One, UNIQUENESS_PENALTY_FACTOR)))

\* the inner loop body that penalizes the higher-scoring sibling of the pair
penalize_pair_higher(st, a, b, sim) ==
    LET target == IF RLeq(st.ns[b].propagated_score, st.ns[a].propagated_score) THEN a ELSE b
        other == IF target = b THEN a ELSE b
        penalty == penalty_of(sim)
        old_score == st.ns[target].uniqueness_score
        new_score == RMax(RMul(old_score, penalty), PENALTY_FLOOR)
    IN  IF RLt(UNIQUENESS_PENALTY_THRESHOLD, sim)
        THEN [ns |-> [st.ns EXCEPT ![target].uniqueness_score = new_score],
              pens |-> Append(st.pens,
                         [target_id |-> target, similar_to_id |-> other, similarity |-> sim,
                          old_uniqueness |-> old_score, new_uniqueness |-> new_score,
                          penalty_factor |-> penalty])]
        ELSE st

\* body of the inner loop of check_and_penalize for siblings[i], siblings[j];
\* st = [ns |-> nodes so far, pens |-> penalties so far]
penalize_pair(st, a, b, sim) ==
    LET target == IF RLeq(st.ns[b].propagated_score, st.ns[a].propagated_score) THEN b ELSE a
        other == IF target = b THEN a ELSE b
        penalty == penalty_of(sim)
        old_score == st.ns[target].uniqueness_score
        new_score == RMax(RMul(old_score, penalty), PENALTY_FLOOR)
    IN  IF RLt(UNIQUENESS_PENALTY_THRESHOLD, sim)
        THEN [ns |-> [st.ns EXCEPT ![target].uniqueness_score = new_score],
              pens |-> Append(st.pens,
                         [target_id |-> target, similar_to_id |-> other, similarity |-> sim,
                          old_uniqueness |-> old_score, new_uniqueness |-> new_score,
                          penalty_factor |-> penalty])]
        ELSE st

\* the two nested loops over i < j of one sibling group
RECURSIVE penalize_group(_, _, _, _, _)
penalize_group(st, sibs, simf, i, j) ==
    IF i > Len(sibs) THEN st
    ELSE IF j > Len(sibs) THEN penalize_group(st, sibs, simf, i + 1, i + 2)
    ELSE penalize_group(penalize_pair(st, sibs[i], sibs[j], simf[{sibs[i], sibs[j]}]),
                        sibs, simf, i, j + 1)

\* the loop over parent_ids, in the iteration order groups of the Python set
RECURSIVE penalize_groups(_, _, _, _, _)
penalize_groups(st, ord, ch, groups, simf) ==
    IF groups = <<>> THEN st
    ELSE penalize_groups(
            penalize_group(st, siblings_of(st.ns, ord, ch, Head(groups)), simf, 1, 2),
            ord, ch, Tail(groups), simf)

\* UniquenessChecker.check_and_penalize: [ns |-> nodes after, pens |-> returned list]
check_and_penalize(ns, ord, ch, groups, simf) ==
    penalize_groups([ns |-> ns, pens |-> <<>>], ord, ch, groups, simf)

\* the orders in which a Python set holding S can be iterated
Orderings(S) ==
    { f \in [1..Cardinality(S) -> S] : \A i, j \in 1..Cardinality(S) : f[i] = f[j] => i = j }

(* ------------------- MechanicalEquivalenceChecker ---------------------- *)
\* text.lower(), re.sub(r"[^\w\s']", " ", text), text.split() on one raw word:
\* capitals are folded and punctuation becomes a separator
LowerStrip(raw) ==
    CASE raw = "Tax"     -> <<"tax">>
      [] raw = "Taxes"   -> <<"taxes">>
      [] raw = "Trump"   -> <<"trump">>
      [] raw = "lower."  -> <<"lower">>
      [] raw = "short-term" -> <<"short", "term">>
      [] OTHER           -> <<raw>>

RECURSIVE Tokenize(_)
Tokenize(text) ==
    IF text = <<>> THEN <<>> ELSE LowerStrip(Head(text)) \o Tokenize(Tail(text))

\* _STOPWORDS, _NEGATION_WORDS: the members that occur in the texts below
STOPWORDS == {"a", "the", "is", "are", "be", "should", "not", "no", "of", "in"}
NEGATION_WORDS == {"not", "no", "never", "without", "in"}

\* _CANONICAL.get(tok, tok): smallest member of the synonym group of tok
Canonical(tok) ==
    CASE tok \in {"decrease", "lower", "reduce"}           -> "decrease"
      [] tok \in {"clever", "intelligent", "smart"}        -> "clever"
      [] tok \in {"foolish", "stupid", "unintelligent"}    -> "foolish"
      [] tok \in {"beneficial", "good"}                    -> "beneficial"
      [] tok \in {"bad", "detrimental", "harmful"}         -> "bad"
      [] tok \in {"tax", "taxation", "taxes"}              -> "tax"
      [] OTHER                                             -> tok

\* _ANTONYMS.get(tok): later pairs of _ANTONYM_PAIRS overwrite earlier ones
NoAntonym == "<none>"
Antonym(tok) ==
    CASE tok = "intelligent"   -> "stupid"
      [] tok = "unintelligent" -> "intelligent"
      [] tok = "stupid"        -> "intelligent"
      [] tok = "good"          -> "evil"
      [] tok = "bad"           -> "good"
      [] tok = "evil"          -> "good"
      [] OTHER                 -> NoAntonym

\* the while loop of MechanicalEquivalenceChecker.normalize over tokens[i..]
RECURSIVE NormalizeFrom(_, _)
NormalizeFrom(tokens, i) ==
    IF i > Len(tokens) THEN <<>>
    ELSE IF tokens[i] \in NEGATION_WORDS /\ i + 1 <= Len(tokens)
            /\ Antonym(tokens[i + 1]) # NoAntonym
         THEN <<Canonical(Antonym(tokens[i + 1]))>> \o NormalizeFrom(tokens, i + 2)
         ELSE IF tokens[i] \notin STOPWORDS
              THEN <<Canonical(tokens[i])>> \o NormalizeFrom(tokens, i + 1)
              ELSE NormalizeFrom(tokens, i + 1)

\* set(self.normalize(text)): the canonical token set (sorting does not change it)
NormalizeSet(text) ==
    LET cleaned == NormalizeFrom(Tokenize(text), 1)
    IN  {cleaned[k] : k \in 1..Len(cleaned)}

\* the Jaccard score with two empty token sets taken as unrelated
l1_score_empty_zero(text_a, text_b) ==
    LET tokens_a == NormalizeSet(text_a)
        tokens_b == NormalizeSet(text_b)
    IN  IF tokens_a = {} \/ tokens_b = {} THEN Zero
        ELSE Rat(Cardinality(tokens_a \cap tokens_b), Cardinality(tokens_a \cup tokens_b))

\* MechanicalEquivalenceChecker.score: Jaccard similarity of the token sets
l1_score(text_a, text_b) ==
    LET tokens_a == NormalizeSet(text_a)
        tokens_b == NormalizeSet(text_b)
    IN  IF tokens_a = {} /\ tokens_b = {} THEN One
        ELSE IF tokens_a = {} \/ tokens_b = {} THEN Zero
        ELSE Rat(Cardinality(tokens_a \cap tokens_b), Cardinality(tokens_a \cup tokens_b))

(* --------------------- SemanticSimilarityScorer ------------------------ *)
\* ArgumentNode.embedding is None (or an empty list)
NoEmbedding == <<>>

\* sum of the squares of the components of v
RECURSIVE SumSq(_)
SumSq(v) == IF v = <<>> THEN 0 ELSE Head(v) * Head(v) + SumSq(Tail(v))

\* np.linalg.norm of an integer vector whose squared length is a perfect square
Norm(v) == CHOOSE r \in 0..SumSq(v) : r * r = SumSq(v)

\* np.dot of two vectors of the same length
RECURSIVE Dot(_, _)
Dot(ea, eb) == IF ea = <<>> THEN 0 ELSE Head(ea) * Head(eb) + Dot(Tail(ea), Tail(eb))

\* cosine similarity of two pre-computed embeddings (0.0 when a norm is 0)
embedding_cosine(ea, eb) ==
    IF Norm(ea) = 0 \/ Norm(eb) = 0 THEN Zero
    ELSE Rat(Dot(ea, eb), Norm(ea) * Norm(eb))

\* the exception SemanticSimilarityScorer.score lets through, "no" when it
\* returns: `import numpy` in an installation without numpy (env.numpy FALSE),
\* np.dot of embeddings of different lengths (after the zero-norm return), and
\* a loaded engine whose generate_embedding raises (env.engine_raises); nothing
\* in score catches any of them
l2_raised(arg_a, arg_b, env) ==
    IF arg_a.embedding # NoEmbedding /\ arg_b.embedding # NoEmbedding
    THEN IF ~env.numpy THEN "ModuleNotFoundError"
         ELSE IF Norm(arg_a.embedding) = 0 \/ Norm(arg_b.embedding) = 0 THEN "no"
         ELSE IF Len(arg_a.embedding) # Len(arg_b.embedding) THEN "ValueError"
         ELSE "no"
    ELSE IF env.engine /\ env.engine_raises THEN "RuntimeError"
    ELSE "no"

\* SemanticSimilarityScorer.score when it returns; env.engine says whether the
\* ML engine was loaded, env.engine_sim is what it returns for the pair and
\* env.ngram_sim the character-trigram Jaccard of the two composite texts
l2_score(arg_a, arg_b, env) ==
    IF arg_a.embedding # NoEmbedding /\ arg_b.embedding # NoEmbedding
    THEN embedding_cosine(arg_a.embedding, arg_b.embedding)
    ELSE IF env.engine THEN env.engine_sim
    ELSE env.ngram_sim

(* -------------------------- DuplicationScorer -------------------------- *)
\* layer3_score is None
NoL3 == <<0, 0>>
\* community_debate is None
NoDebate == [resolved |-> FALSE, community_similarity_score |-> NoL3, present |-> FALSE]

\* Layer 3 taken from any debate that carries a score, resolved or not
l3_score_unresolved(debate) ==
    IF debate.present THEN debate.community_similarity_score ELSE NoL3

\* Layer 3 of compare: the score of a resolved debate, else None
l3_score(debate) ==
    IF debate.present /\ debate.resolved THEN debate.community_similarity_score ELSE NoL3

\* the mechanical-duplicate test of _blend with the comparison turned round
is_mech_dup_wrong(cfg, l1) == RLt(l1, cfg.mechanical_threshold)

\* l1 >= self.mechanical_threshold
is_mech_dup(cfg, l1) == RLeq(cfg.mechanical_threshold, l1)

\* DuplicationScorer._blend; "ZeroDivisionError" when the weights in use sum to 0
blend(cfg, l1, l2, l3) ==
    LET total_w == IF l3 # NoL3
                   THEN RAdd(RAdd(cfg.layer1_weight, cfg.layer2_weight), cfg.layer3_weight)
                   ELSE RAdd(cfg.layer1_weight, cfg.layer2_weight)
        weighted == IF l3 # NoL3
                    THEN RAdd(RAdd(RMul(l1, cfg.layer1_weight), RMul(l2, cfg.layer2_weight)),
                              RMul(l3, cfg.layer3_weight))
                    ELSE RAdd(RMul(l1, cfg.layer1_weight), RMul(l2, cfg.layer2_weight))
    IN  IF is_mech_dup(cfg, l1) THEN [raised |-> "no", value |-> One]
        ELSE IF total_w = Zero THEN [raised |-> "ZeroDivisionError", value |-> Zero]
        ELSE [raised |-> "no", value |-> RMax(Zero, RMin(One, RDiv(weighted, total_w)))]

\* DuplicationScorer.compare: the SimilarityPair returned, or the exception
compare(cfg, arg_a, arg_b, debate, env) ==
    LET l1 == l1_score(arg_a.claim, arg_b.claim)
        l2_exc == l2_raised(arg_a, arg_b, env)
        l2 == IF l2_exc = "no" THEN l2_score(arg_a, arg_b, env) ELSE Zero
        l3 == l3_score(debate)
        combined == blend(cfg, l1, l2, l3)
    IN  [raised |-> IF l2_exc # "no" THEN l2_exc ELSE combined.raised,
         arg_a_id |-> arg_a.id, arg_b_id |-> arg_b.id,
         layer1_score |-> l1, layer2_score |-> l2, layer3_score |-> l3,
         combined_score |-> combined.value,
         is_mechanical_duplicate |-> RLeq(cfg.mechanical_threshold, l1)]

\* claim texts submitted to the scorer, as raw words
ClaimTexts ==
    { <<"Tax", "rates", "should", "be", "lower.">>,
      <<"Taxes", "should", "be", "reduced">>,
      <<"taxes", "should", "be", "lower">>,
      <<"taxes", "should", "not", "be", "lower">>,
      <<"Trump", "is", "not", "unintelligent">>,
      <<"Trump", "is", "intelligent">>,
      <<"climate", "policy", "costs", "jobs", "growth", "trade", "wages">>,
      <<"climate", "policy", "costs", "jobs", "growth", "trade">>,
      <<>> }

\* pre-computed embeddings, as integer vectors
Embeddings == { NoEmbedding, <<1, 0>>, <<-1, 0>>, <<3, 4>>, <<0, 0>>, <<1, 0, 0>> }

\* what the engine or the trigram fallback yields for the pair, in an
\* installation with numpy and a working engine, with no engine, with an
\* engine that loads and then fails, and with no ML package at all
L2Envs ==
    { [engine |-> TRUE, engine_raises |-> FALSE, numpy |-> TRUE,
       engine_sim |-> Rat(7, 10), ngram_sim |-> Rat(1, 5)],
      [engine |-> FALSE, engine_raises |-> FALSE, numpy |-> TRUE,
       engine_sim |-> Zero, ngram_sim |-> Rat(1, 5)],
      [engine |-> FALSE, engine_raises |-> FALSE, numpy |-> TRUE,
       engine_sim |-> Zero, ngram_sim |-> One],
      [engine |-> TRUE, engine_raises |-> TRUE, numpy |-> TRUE,
       engine_sim |-> Zero, ngram_sim |-> Rat(1, 5)],
      [engine |-> FALSE, engine_raises |-> FALSE, numpy |-> FALSE,
       engine_sim |-> Zero, ngram_sim |-> Rat(1, 5)] }

\* the community debates passed to compare: none, open, open with a score
\* already stored, resolved at 0.0 and at 1.0
Debates ==
    { NoDebate,
      [resolved |-> FALSE, community_similarity_score |-> NoL3, present |-> TRUE],
      [resolved |-> FALSE, community_similarity_score |-> One, present |-> TRUE],
      [resolved |-> TRUE, community_similarity_score |-> Zero, present |-> TRUE],
      [resolved |-> TRUE, community_similarity_score |-> One, present |-> TRUE] }

\* DuplicationScorer(...) configurations: the defaults, a scorer that weights
\* the community layer, and one whose weights are all 0
ScorerConfigs ==
    { [layer1_weight |-> Rat(4, 10), layer2_weight |-> Rat(6, 10), layer3_weight |-> Zero,
       mechanical_threshold |-> Rat(85, 100)],
      [layer1_weight |-> Rat(3, 10), layer2_weight |-> Rat(5, 10), layer3_weight |-> Rat(2, 10),
       mechanical_threshold |-> Rat(85, 100)],
      [layer1_weight |-> Zero, layer2_weight |-> Zero, layer3_weight |-> Zero,
       mechanical_threshold |-> Rat(85, 100)] }

(* --------------------- NoveltyPremiumCalculator ----------------------- *)
NOVELTY_PEAK_MULTIPLIER == Rat(125, 100)
NOVELTY_HALFLIFE_HOURS == 24
NOVELTY_FLOOR == One
NOVELTY_THRESHOLD == Rat(1, 2)

RECURSIVE Pow2(_)
Pow2(k) == IF k = 0 THEN 1 ELSE 2 * Pow2(k - 1)

\* math.pow(0.5, age_hours / halflife_hours), for ages that are whole half-lives
decay(age_hours) == Rat(1, Pow2(age_hours \div NOVELTY_HALFLIFE_HOURS))

\* the multiplier without the novelty_threshold test: duplicates are boosted too
multiplier_ungated(submitted_at, uniqueness_score, now) ==
    LET age_hours == IF now - submitted_at < 0 THEN 0 ELSE now - submitted_at
    IN  RAdd(NOVELTY_FLOOR,
             RMul(RSub(NOVELTY_PEAK_MULTIPLIER, NOVELTY_FLOOR), decay(age_hours)))

\* NoveltyPremiumCalculator.multiplier; times are hours since a common origin
multiplier(submitted_at, uniqueness_score, now) ==
    IF RLt(uniqueness_score, NOVELTY_THRESHOLD) THEN NOVELTY_FLOOR
    ELSE LET age_hours == IF now - submitted_at < 0 THEN 0 ELSE now - submitted_at
         IN  RAdd(NOVELTY_FLOOR,
                  RMul(RSub(NOVELTY_PEAK_MULTIPLIER, NOVELTY_FLOOR), decay(age_hours)))

(* ------------------ DuplicationScorer.score_arguments ------------------ *)
\* ArgumentNode(id, claim, base_score, submitted_at, embedding); inference and
\* conclusion keep their default ""
ArgumentNode(id, content, submitted_at) ==
    [id |-> id, claim |-> content.claim, base_score |-> content.base_score,
     submitted_at |-> submitted_at, embedding |-> content.embedding]

\* SemanticSimilarityScorer._argument_text: the claim alone when inference and
\* conclusion are empty
argument_text(arg) == arg.claim

\* ngrams(text) of _ngram_similarity: the character trigrams of text.lower()
ngrams(text) ==
    CASE text = <<"Tax", "rates", "should", "be", "lower">> ->
            {" be", " lo", " ra", " sh", "ate", "ax ", "be ", "d b", "e l", "es ", "hou", "ld ",
             "low", "oul", "owe", "rat", "s s", "sho", "tax", "tes", "uld", "wer", "x r"}
      [] text = <<"Taxes", "should", "be", "reduced">> ->
            {" be", " re", " sh", "axe", "be ", "ced", "d b", "duc", "e r", "edu", "es ", "hou",
             "ld ", "oul", "red", "s s", "sho", "tax", "uce", "uld", "xes"}
      [] text = <<"taxes", "should", "be", "lower">> ->
            {" be", " lo", " sh", "axe", "be ", "d b", "e l", "es ", "hou", "ld ", "low", "oul",
             "owe", "s s", "sho", "tax", "uld", "wer", "xes"}
      [] text = <<"the">> -> {"the"}
      [] OTHER -> {}

\* SemanticSimilarityScorer._ngram_similarity: Jaccard of the trigram sets
ngram_similarity(text_a, text_b) ==
    LET a_grams == ngrams(text_a)
        b_grams == ngrams(text_b)
    IN  IF a_grams = {} /\ b_grams = {} THEN One
        ELSE IF a_grams = {} \/ b_grams = {} THEN Zero
        ELSE Rat(Cardinality(a_grams \cap b_grams), Cardinality(a_grams \cup b_grams))

\* StatementSimilarityEngine.calculate_similarity of the two generated
\* embeddings: the cosine, 1.0 for equal texts and the value the model gives
\* the pair otherwise (a cosine is not bounded below by 0)
engine_similarity(env, text_a, text_b) ==
    IF text_a = text_b THEN One ELSE env.engine_sim

\* what the semantic layer has at hand for one pair
pair_env(env, arg_a, arg_b) ==
    [engine |-> env.engine, engine_raises |-> env.engine_raises, numpy |-> env.numpy,
     engine_sim |-> engine_similarity(env, argument_text(arg_a), argument_text(arg_b)),
     ngram_sim |-> ngram_similarity(argument_text(arg_a), argument_text(arg_b))]

\* community_debates.get((arg.id, prior.id)) or community_debates.get((prior.id, arg.id))
debate_for(debates, x, y) ==
    IF <<x, y>> \in DOMAIN debates THEN debates[<<x, y>>]
    ELSE IF <<y, x>> \in DOMAIN debates THEN debates[<<y, x>>]
    ELSE NoDebate

\* position of element i in a stable ascending sort by keys
StableRank(keys, i) ==
    1 + Cardinality({j \in 1..Len(keys) : keys[j] < keys[i] \/ (keys[j] = keys[i] /\ j < i)})

\* the permutation of a stable ascending sort (sorted / list.sort with a key)
StableOrder(keys) ==
    [k \in 1..Len(keys) |-> CHOOSE i \in 1..Len(keys) : StableRank(keys, i) = k]

\* the sort with the newest submission first
sorted_args_newest_first(arguments) ==
    LET perm == StableOrder([k \in 1..Len(arguments) |-> 0 - arguments[k].submitted_at])
    IN  [k \in 1..Len(arguments) |-> arguments[perm[k]]]

\* sorted(arguments, key=lambda a: a.submitted_at)
sorted_args(arguments) ==
    LET perm == StableOrder([k \in 1..Len(arguments) |-> arguments[k].submitted_at])
    IN  [k \in 1..Len(arguments) |-> arguments[perm[k]]]

\* the comparison run against every other argument, later ones included
compare_priors_all(cfg, env, debates, sorted, i) ==
    LET others == [k \in 1..(Len(sorted) - 1) |-> IF k < i THEN k ELSE k + 1] IN
    [k \in 1..(Len(sorted) - 1) |->
        compare(cfg, sorted[i], sorted[others[k]],
                debate_for(debates, sorted[i].id, sorted[others[k]].id),
                pair_env(env, sorted[i], sorted[others[k]]))]

\* the pairs of arg with sorted_args[:i], in that order
compare_priors(cfg, env, debates, sorted, i) ==
    [k \in 1..(i - 1) |->
        compare(cfg, sorted[i], sorted[k], debate_for(debates, sorted[i].id, sorted[k].id),
                pair_env(env, sorted[i], sorted[k]))]

\* max(p.combined_score for p in pairs), pairs not empty
RECURSIVE max_combined(_)
max_combined(pairs) ==
    IF Len(pairs) = 1 THEN pairs[1].combined_score
    ELSE RMax(pairs[1].combined_score, max_combined(Tail(pairs)))

\* uniqueness_from_pairs with the mean similarity in place of the maximum
RECURSIVE sum_combined(_)
sum_combined(pairs) ==
    IF pairs = <<>> THEN Zero ELSE RAdd(pairs[1].combined_score, sum_combined(Tail(pairs)))

uniqueness_from_pairs_mean(pairs) ==
    IF pairs = <<>> THEN One
    ELSE RMax(Zero, RSub(One, RDiv(sum_combined(pairs), Rat(Len(pairs), 1))))

\* DuplicationScorer.uniqueness_from_pairs
uniqueness_from_pairs(pairs) ==
    IF pairs = <<>> THEN One
    ELSE RMax(Zero, RSub(One, max_combined(pairs)))

\* the contribution computed from the similarity instead of the uniqueness
effective_contribution_wrong(base_score, uniqueness, novelty) ==
    RMul(RMul(base_score, RSub(One, uniqueness)), novelty)

\* arg.base_score * uniqueness * novelty
effective_contribution(base_score, uniqueness, novelty) ==
    RMul(RMul(base_score, uniqueness), novelty)

\* one pass of the loop of score_arguments: the ScoredArgument of sorted_args[i]
scored_argument(cfg, env, debates, now, sorted, i) ==
    LET pairs == compare_priors(cfg, env, debates, sorted, i)
        uniqueness == uniqueness_from_pairs(pairs)
        novelty == multiplier(sorted[i].submitted_at, uniqueness, now)
    IN  [arg |-> sorted[i], uniqueness_score |-> uniqueness,
         effective_contribution |-> effective_contribution(sorted[i].base_score, uniqueness, novelty),
         novelty_multiplier |-> novelty, similarity_pairs |-> pairs]

\* order = {a.id: idx}: the last index at which id occurs in arguments
order_of(arguments, id) ==
    CHOOSE k \in 1..Len(arguments) :
        /\ arguments[k].id = id
        /\ \A j \in (k + 1)..Len(arguments) : arguments[j].id # id

\* score_arguments that returns the results in submission order
resort_skipped(arguments, results) == results

\* results.sort(key=lambda s: order[s.arg.id])
resort(arguments, results) ==
    LET perm == StableOrder([k \in 1..Len(results) |-> order_of(arguments, results[k].arg.id)])
    IN  [k \in 1..Len(results) |-> results[perm[k]]]

\* the exception that ends the loop of score_arguments: that of the first
\* compare that raises, in the order the loop makes the calls, or "no"
first_exception(results) ==
    LET fails == {ik \in (1..Len(results)) \X (1..Len(results)) :
                    /\ ik[2] <= Len(results[ik[1]].similarity_pairs)
                    /\ results[ik[1]].similarity_pairs[ik[2]].raised # "no"}
        first == CHOOSE ik \in fails : \A o \in fails :
                    ik[1] < o[1] \/ (ik[1] = o[1] /\ ik[2] <= o[2])
    IN  IF fails = {} THEN "no"
        ELSE results[first[1]].similarity_pairs[first[2]].raised

\* resort(arguments, results), or the exception raised on the way
returned_or_raised(arguments, results, exc) ==
    IF exc # "no" THEN [raised |-> exc, value |-> <<>>]
    ELSE [raised |-> "no", value |-> resort(arguments, results)]

\* DuplicationScorer.score_arguments: the list returned, or the exception of
\* the first compare that raises
score_arguments(cfg, env, debates, now, arguments) ==
    LET sorted == sorted_args(arguments)
        results == [i \in 1..Len(sorted) |-> scored_argument(cfg, env, debates, now, sorted, i)]
    IN  returned_or_raised(arguments, results, first_exception(results))

(* ----------------- DuplicationScorer.cluster_arguments ----------------- *)
\* every similarity pair of scored, in the order the loop over scored meets them
RECURSIVE all_pair_list(_)
all_pair_list(scored_list) ==
    IF scored_list = <<>> THEN <<>>
    ELSE Head(scored_list).similarity_pairs \o all_pair_list(Tail(scored_list))

\* all_pairs.get((x, y)): the combined_score stored last under that key, None
\* (here NoL3) when the key is absent
all_pairs_get(pair_list, x, y) ==
    LET hits == {k \in 1..Len(pair_list) : pair_list[k].arg_a_id = x /\ pair_list[k].arg_b_id = y}
    IN  IF hits = {} THEN NoL3
        ELSE pair_list[CHOOSE k \in hits : \A j \in hits : j <= k].combined_score

\* all_pairs.get((s, o)) or all_pairs.get((o, s)) or 0.0
pair_sim(pair_list, x, y) ==
    LET fwd == all_pairs_get(pair_list, x, y)
        bwd == all_pairs_get(pair_list, y, x)
    IN  IF fwd # NoL3 /\ fwd # Zero THEN fwd
        ELSE IF bwd # NoL3 /\ bwd # Zero THEN bwd
        ELSE Zero

\* the inner loop over scored[j..]: the ids that join the cluster of seed
RECURSIVE cluster_members(_, _, _, _, _, _)
cluster_members(scored_list, pair_list, threshold, seed, assigned, j) ==
    IF j > Len(scored_list) THEN <<>>
    ELSE LET other == scored_list[j].arg.id IN
         IF other \notin assigned /\ RLeq(threshold, pair_sim(pair_list, seed, other))
         THEN <<other>> \o cluster_members(scored_list, pair_list, threshold, seed,
                                           assigned \cup {other}, j + 1)
         ELSE cluster_members(scored_list, pair_list, threshold, seed, assigned, j + 1)

\* the outer loop over scored[i..]: the member lists of the clusters
RECURSIVE cluster_lists(_, _, _, _, _)
cluster_lists(scored_list, pair_list, threshold, assigned, i) ==
    IF i > Len(scored_list) THEN <<>>
    ELSE LET seed == scored_list[i].arg.id IN
         IF seed \in assigned
         THEN cluster_lists(scored_list, pair_list, threshold, assigned, i + 1)
         ELSE LET joined == cluster_members(scored_list, pair_list, threshold, seed,
                                            assigned \cup {seed}, 1)
                  cluster == <<seed>> \o joined
              IN  <<cluster>> \o
                  cluster_lists(scored_list, pair_list, threshold,
                                assigned \cup {cluster[k] : k \in 1..Len(cluster)}, i + 1)

\* scored_map[aid]: the last ScoredArgument of scored with that id
scored_map(scored_list, aid) ==
    scored_list[CHOOSE k \in 1..Len(scored_list) :
                    /\ scored_list[k].arg.id = aid
                    /\ \A j \in (k + 1)..Len(scored_list) : scored_list[j].arg.id # aid]

\* max(cluster_ids, key=base_score): the first member of maximal base_score
representative(scored_list, cluster_ids) ==
    cluster_ids[CHOOSE k \in 1..Len(cluster_ids) :
        /\ \A j \in 1..Len(cluster_ids) :
              RLeq(scored_map(scored_list, cluster_ids[j]).arg.base_score,
                   scored_map(scored_list, cluster_ids[k]).arg.base_score)
        /\ \A j \in 1..(k - 1) :
              RLt(scored_map(scored_list, cluster_ids[j]).arg.base_score,
                  scored_map(scored_list, cluster_ids[k]).arg.base_score)]

\* sum(scored_map[aid].effective_contribution for aid in cluster_ids)
RECURSIVE total_contribution(_, _)
total_contribution(scored_list, cluster_ids) ==
    IF cluster_ids = <<>> THEN Zero
    ELSE RAdd(scored_map(scored_list, Head(cluster_ids)).effective_contribution,
              total_contribution(scored_list, Tail(cluster_ids)))

\* DuplicationScorer.cluster_arguments(scored, similarity_threshold)
cluster_arguments(scored_list, threshold) ==
    LET pair_list == all_pair_list(scored_list)
        clusters == cluster_lists(scored_list, pair_list, threshold, {}, 1)
    IN  [idx \in 1..Len(clusters) |->
            [cluster_id |-> idx,
             representative_id |-> representative(scored_list, clusters[idx]),
             member_ids |-> clusters[idx],
             cluster_score |-> total_contribution(scored_list, clusters[idx])]]

(* ------------------ inputs of score_arguments -------------------------- *)
\* what the submitted arguments say: claim, pre-computed embedding, base_score
ArgContents ==
    { [claim |-> <<"Tax", "rates", "should", "be", "lower">>, embedding |-> <<1, 0>>,
       base_score |-> Rat(50, 1)],
      [claim |-> <<"Taxes", "should", "be", "reduced">>, embedding |-> <<1, 0>>,
       base_score |-> Rat(80, 1)],
      [claim |-> <<"taxes", "should", "be", "lower">>, embedding |-> NoEmbedding,
       base_score |-> Rat(80, 1)],
      [claim |-> <<"Taxes", "should", "be", "reduced">>, embedding |-> <<-3, -4>>,
       base_score |-> Rat(50, 1)] }

\* submitted_at, in hours: a whole half-life apart, ties included
SubmitTimes == {0, NOVELTY_HALFLIFE_HOURS}

\* the scorer and the other arguments of the call: configuration, semantic
\* engine, community_debates keyed by id pairs, and now (hours)
ScoreSettings ==
    { [cfg |-> [layer1_weight |-> Rat(4, 10), layer2_weight |-> Rat(6, 10),
                layer3_weight |-> Zero, mechanical_threshold |-> Rat(85, 100)],
       env |-> [engine |-> FALSE, engine_raises |-> FALSE, numpy |-> TRUE, engine_sim |-> Zero],
       debates |-> <<>>,
       now |-> 3 * NOVELTY_HALFLIFE_HOURS],
      [cfg |-> [layer1_weight |-> Rat(3, 10), layer2_weight |-> Rat(5, 10),
                layer3_weight |-> Rat(2, 10), mechanical_threshold |-> Rat(85, 100)],
       env |-> [engine |-> TRUE, engine_raises |-> FALSE, numpy |-> TRUE,
                engine_sim |-> Rat(-1, 4)],
       debates |-> [pr \in {<<2, 1>>} |->
                       [resolved |-> TRUE, community_similarity_score |-> One, present |-> TRUE]],
       now |-> 0] }

\* degenerate submissions: the empty text, a text of stopwords only and an
\* ordinary claim, none with a pre-computed embedding
DegenerateContents ==
    { [claim |-> <<>>, embedding |-> NoEmbedding, base_score |-> Rat(50, 1)],
      [claim |-> <<"the">>, embedding |-> NoEmbedding, base_score |-> Rat(50, 1)],
      [claim |-> <<"taxes", "should", "be", "lower">>, embedding |-> NoEmbedding,
       base_score |-> Rat(50, 1)] }

\* the scorers built with use_ml=False and no community debates
DegenerateSettings == {st \in ScoreSettings : ~st.env.engine /\ st.debates = <<>>}

\* similarity_threshold of cluster_arguments: the default and a lower one
ClusterThresholds == { Rat(70, 100), Rat(1, 2) }

(* ----------------------------- actions --------------------------------- *)
\* tree.add_node(node) called directly (parsers, tests): no rescoring
AddNode(id, parent, prof) ==
    LET node == BeliefNode(id, parent, prof) IN
    /\ ops < MaxOps
    /\ nodes' = add_node_nodes(nodes, node)
    /\ nodeOrder' = add_node_order(nodes, nodeOrder, node)
    /\ children' = add_node_children(children, node)
    /\ scored' = FALSE
    /\ lastOp' = [op |-> "add_node", belief_id |-> id, raised |-> "no"]
    /\ ops' = ops + 1
    /\ UNCHANGED <<topoOrder, dupVars>>

\* ReasonRankScorer.score_all
ScoreAll ==
    /\ ops < MaxOps
    /\ nodes' = compute_all_scores(nodes, nodeOrder, children)
    /\ topoOrder' = topo_sort(nodes, nodeOrder, children)
    /\ scored' = TRUE
    /\ lastOp' = [op |-> "score_all", belief_id |-> 0, raised |-> "no"]
    /\ ops' = ops + 1
    /\ UNCHANGED <<nodeOrder, children, dupVars>>

\* ReasonRankScorer.add_and_rescore
AddAndRescore(id, parent, prof) ==
    LET node == BeliefNode(id, parent, prof)
        ns1 == add_node_nodes(nodes, node)
        ord1 == add_node_order(nodes, nodeOrder, node)
        ch1 == add_node_children(children, node)
    IN
    /\ ops < MaxOps
    /\ nodes' = compute_all_scores(ns1, ord1, ch1)
    /\ nodeOrder' = ord1
    /\ children' = ch1
    /\ topoOrder' = topo_sort(ns1, ord1, ch1)
    /\ scored' = TRUE
    /\ lastOp' = [op |-> "add_and_rescore", belief_id |-> id, raised |-> "no"]
    /\ ops' = ops + 1
    /\ UNCHANGED dupVars

\* ReasonRankScorer.update_and_rescore
UpdateAndRescore(id, args) ==
    /\ ops < MaxOps
    /\ ops' = ops + 1
    /\ UNCHANGED dupVars
    /\ IF node_missing(nodes, id)
       THEN /\ lastOp' = [op |-> "update_and_rescore", belief_id |-> id,
                          raised |-> "ValueError"]
            /\ UNCHANGED <<nodes, nodeOrder, children, scored, topoOrder>>
       ELSE LET ns1 == [nodes EXCEPT ![id] = apply_update(@, args)] IN
            /\ nodes' = compute_all_scores(ns1, nodeOrder, children)
            /\ topoOrder' = topo_sort(ns1, nodeOrder, children)
            /\ scored' = TRUE
            /\ lastOp' = [op |-> "update_and_rescore", belief_id |-> id, raised |-> "no"]
            /\ UNCHANGED <<nodeOrder, children>>

\* UniquenessChecker.check_and_penalize(tree); the similarity matrix comes from
\* the sentence-transformer or the TF-IDF fallback (a statement compared with
\* itself gives 1.0), parent_ids is a set and its iteration order is not fixed
CheckAndPenalize ==
    /\ ops < MaxOps
    /\ \E groups \in Orderings(penalty_groups(nodes, nodeOrder, children)),
          simf \in [sibling_pairs(nodes, nodeOrder, children) -> SimLevels] :
        /\ \A pr \in DOMAIN simf : Cardinality(pr) = 1 => simf[pr] = One
        /\ LET res == check_and_penalize(nodes, nodeOrder, children, groups, simf) IN
            /\ nodes' = res.ns
            /\ lastOp' = [op |-> "check_and_penalize", belief_id |-> 0, raised |-> "no",
                          ret |-> res.pens, sim |-> simf]
            /\ scored' = (scored /\ res.pens = <<>>)
    /\ ops' = ops + 1
    /\ UNCHANGED <<nodeOrder, children, topoOrder, dupVars>>

\* ArgumentTree.get_sorted_children(belief_id)
GetSortedChildren(id) ==
    /\ lastOp' = [op |-> "get_sorted_children", belief_id |-> id, raised |-> "no",
                  ret |-> get_sorted_children(nodes, children, id)]
    /\ UNCHANGED <<nodes, nodeOrder, children, scored, topoOrder, ops, dupVars>>

\* ArgumentTree.get_sorted_roots()
GetSortedRoots ==
    /\ lastOp' = [op |-> "get_sorted_roots", belief_id |-> 0, raised |-> "no",
                  ret |-> get_sorted_roots(nodes, nodeOrder)]
    /\ UNCHANGED <<nodes, nodeOrder, children, scored, topoOrder, ops, dupVars>>

\* ReasonRankScorer.get_leaderboard()
GetLeaderboard ==
    /\ lastOp' = [op |-> "get_leaderboard", belief_id |-> 0, raised |-> "no",
                  ret |-> get_leaderboard(nodes, nodeOrder, children)]
    /\ UNCHANGED <<nodes, nodeOrder, children, scored, topoOrder, ops, dupVars>>

\* ArgumentTree(): empty tree, nothing scored yet
InitTree ==
    /\ nodes = <<>>
    /\ nodeOrder = <<>>
    /\ children = [i \in Ids |-> <<>>]
    /\ scored = FALSE
    /\ topoOrder = <<>>
    /\ lastOp = [op |-> "init", belief_id |-> 0, raised |-> "no"]
    /\ ops = 0

\* no comparison requested
NoCmp == [pair |-> "none"]

\* DuplicationScorer.compare(arg_a, arg_b, community_debate) on the pending call
Compare ==
    /\ cmp.pair = "pending"
    /\ cmp' = [cmp EXCEPT !.pair = "set",
                          !.result = compare(cmp.cfg, cmp.arg_a, cmp.arg_b, cmp.debate, cmp.env)]
    /\ UNCHANGED <<treeVars, sa>>

\* no score_arguments call under way
NoSa == [call |-> "idle"]
\* nothing returned yet
NoRet == [raised |-> "pending", value |-> <<>>]
NoClusters == [threshold |-> Zero, value |-> <<>>, made |-> FALSE]

\* arguments.sort(...) in place of sorted(arguments, ...): the caller's list is reordered
caller_list_sorted(arguments) == sorted_args(arguments)

\* sorted() builds a new list and nothing is assigned to an argument or a
\* debate: the caller's list after the call is the list passed
caller_list_after(arguments) == arguments

\* a caller appends one more argument to the list it will pass; ids follow
\* the order of arrival in the list
SubmitArgument(content, submitted_at) ==
    /\ sa.call \in {"none", "first", "again"}
    /\ Len(sa.arguments) < MaxArgs
    /\ sa.ret = NoRet \/ sa.call = "first"
    /\ ~sa.clusters.made
    /\ sa' = [sa EXCEPT !.arguments = Append(@, ArgumentNode(Len(@) + 1, content, submitted_at)),
                        !.call = "none"]
    /\ UNCHANGED <<treeVars, cmp>>

\* DuplicationScorer.score_arguments(arguments, community_debates, now)
ScoreArguments ==
    /\ sa.call \in {"none", "first"}
    /\ ~sa.clusters.made
    /\ sa' = [sa EXCEPT !.ret = score_arguments(sa.cfg, sa.env, sa.debates, sa.now, sa.arguments),
                        !.prior = sa.ret,
                        !.retArgs = sa.arguments,
                        !.arguments = caller_list_after(@),
                        !.call = IF sa.call = "none" THEN "first" ELSE "again"]
    /\ UNCHANGED <<treeVars, cmp>>

\* DuplicationScorer.cluster_arguments(scored, similarity_threshold) on the
\* list score_arguments returned
ClusterArguments(threshold) ==
    /\ sa.call = "first"
    /\ sa.ret.raised = "no"
    /\ ~sa.clusters.made
    /\ sa' = [sa EXCEPT !.clusters = [threshold |-> threshold, made |-> TRUE,
                                      value |-> cluster_arguments(sa.ret.value, threshold)]]
    /\ UNCHANGED <<treeVars, cmp>>

Init ==
    /\ InitTree
    /\ cmp = NoCmp
    /\ sa = NoSa

\* ids a caller submits next: rows are numbered in sequence (parsers/base.py),
\* so a new node takes the next unused id and a re-submitted row an existing one
SubmittedIds == {i \in Ids : i <= Len(nodeOrder) + 1}

\* ids whose sorted children are read: those that have children in the tree
ParentIds == {i \in Ids : get_children(nodes, children, i) # <<>>}

Next ==
    \/ \E id \in SubmittedIds, parent \in Ids \cup {None} : AddNode(id, parent, ProfileOf(id))
    \/ \E id \in SubmittedIds, parent \in Ids \cup {None} : AddAndRescore(id, parent, ProfileOf(id))
    \/ ScoreAll
    \/ \E id \in Ids, args \in UpdateArgs : UpdateAndRescore(id, args)
    \/ CheckAndPenalize
    \/ \E id \in ParentIds : GetSortedChildren(id)
    \/ GetSortedRoots
    \/ GetLeaderboard

Spec == Init /\ [][Next]_vars

\* the calls that build and read the Scenario C tree
NextScenarioC ==
    \/ \E id \in ScenarioIds : AddNode(id, ScenarioParent(id), ScenarioProfile(id))
    \/ \E id \in ScenarioIds : AddAndRescore(id, ScenarioParent(id), ScenarioProfile(id))
    \/ ScoreAll
    \/ \E id \in ScenarioIds : GetSortedChildren(id)
    \/ GetLeaderboard

SpecScenarioC == Init /\ [][NextScenarioC]_vars

\* the calls of a pipeline run that loads rows and runs the redundancy pass
NextRedundancy ==
    \/ \E id \in SubmittedIds, parent \in Ids \cup {None} :
          AddNode(id, parent, RedundancyProfile(id))
    \/ \E id \in SubmittedIds, parent \in Ids \cup {None} :
          AddAndRescore(id, parent, RedundancyProfile(id))
    \/ ScoreAll
    \/ CheckAndPenalize

SpecRedundancy == Init /\ [][NextRedundancy]_vars

\* a DuplicationScorer built with cfg and the arguments of one compare call
InitCompare ==
    /\ InitTree
    /\ \E cfg \in ScorerConfigs, claim_a \in ClaimTexts, claim_b \in ClaimTexts,
          emb_a \in Embeddings, emb_b \in Embeddings, debate \in Debates, env \in L2Envs :
        cmp = [pair |-> "pending", cfg |-> cfg,
               arg_a |-> [id |-> "a", claim |-> claim_a, embedding |-> emb_a],
               arg_b |-> [id |-> "b", claim |-> claim_b, embedding |-> emb_b],
               debate |-> debate, env |-> env, result |-> [raised |-> "pending"]]
    /\ sa = NoSa

NextCompare == Compare

SpecCompare == InitCompare /\ [][NextCompare]_vars

\* a DuplicationScorer and a caller that collects arguments, scores and clusters them
InitScore ==
    /\ InitTree
    /\ cmp = NoCmp
    /\ \E st \in ScoreSettings :
        sa = [call |-> "none", cfg |-> st.cfg, env |-> st.env, debates |-> st.debates,
              now |-> st.now, arguments |-> <<>>, ret |-> NoRet, retArgs |-> <<>>,
              prior |-> NoRet,
              clusters |-> NoClusters]

NextScore ==
    \/ \E content \in ArgContents, submitted_at \in SubmitTimes : SubmitArgument(content, submitted_at)
    \/ ScoreArguments
    \/ \E threshold \in ClusterThresholds : ClusterArguments(threshold)

SpecScore == InitScore /\ [][NextScore]_vars

\* a scorer without ML and a caller that submits degenerate arguments
InitDegenerate ==
    /\ InitTree
    /\ cmp = NoCmp
    /\ \E st \in DegenerateSettings :
        sa = [call |-> "none", cfg |-> st.cfg, env |-> st.env, debates |-> st.debates,
              now |-> st.now, arguments |-> <<>>, ret |-> NoRet, retArgs |-> <<>>,
              prior |-> NoRet,
              clusters |-> NoClusters]

NextDegenerate ==
    \/ \E content \in DegenerateContents, submitted_at \in SubmitTimes :
          SubmitArgument(content, submitted_at)
    \/ ScoreArguments

SpecDegenerate == InitDegenerate /\ [][NextDegenerate]_vars

(* ------------------------------ claims -------------------------------- *)
\* number of occurrences of x in seq
Count(seq, x) == Cardinality({k \in 1..Len(seq) : seq[k] = x})

\* the four metrics of a node are all 0
ZeroMetrics(n) ==
    /\ n.truth_score = Zero /\ n.linkage_score = Zero
    /\ n.importance_score = Zero /\ n.uniqueness_score = Zero

\* C1: after compute_all_scores (score_all, add_and_rescore, update_and_rescore)
\* every node has propagated_score >= MIN_RANK_SCORE > 0 and reason_rank > 0,
\* whatever the shape of the tree and the metric values
Positivity ==
    /\ RLt(Zero, MIN_RANK_SCORE)
    /\ scored => \A i \in DOMAIN nodes :
        /\ RLeq(MIN_RANK_SCORE, nodes[i].propagated_score)
        /\ RLt(Zero, nodes[i].reason_rank)

\* a scored tree of at least two nodes, one of them with all four metrics zero
PositivityWitness ==
    /\ scored
    /\ Cardinality(DOMAIN nodes) >= 2
    /\ \E i \in DOMAIN nodes : ZeroMetrics(nodes[i])

\* C2: no call removes a node id from tree.nodes, and a node whose metrics were
\* driven to zero is still in the tree with a positive propagated_score
NonDeletion ==
    [][/\ DOMAIN nodes \subseteq DOMAIN nodes'
       /\ (lastOp'.op = "update_and_rescore" /\ lastOp'.raised = "no")
            => /\ lastOp'.belief_id \in DOMAIN nodes'
               /\ RLt(Zero, nodes'[lastOp'.belief_id].propagated_score)]_vars

\* update_and_rescore has driven the metrics of a node to zero
NonDeletionWitness ==
    /\ lastOp.op = "update_and_rescore" /\ lastOp.raised = "no"
    /\ lastOp.belief_id \in DOMAIN nodes
    /\ ZeroMetrics(nodes[lastOp.belief_id])
    /\ nodes[lastOp.belief_id].propagated_score = MIN_RANK_SCORE

\* the tree as a newly built one holding the same metrics: computed fields 0.0
fresh_scores(ns) ==
    [i \in DOMAIN ns |-> [ns[i] EXCEPT !.reason_rank = Zero, !.propagated_score = Zero]]

\* C3: when update_and_rescore or add_and_rescore returns, every score equals
\* what a from-scratch scoring of the current metrics gives, and a second
\* compute_all_scores changes nothing
NoStaleRanks ==
    (lastOp.op \in {"update_and_rescore", "add_and_rescore"} /\ lastOp.raised = "no")
        => /\ nodes = compute_all_scores(fresh_scores(nodes), nodeOrder, children)
           /\ nodes = compute_all_scores(nodes, nodeOrder, children)

\* C4: update_and_rescore with a belief_id that is not in the tree raises
\* ValueError and changes no node
InvalidReference ==
    [][(lastOp'.op = "update_and_rescore" /\ ops' = ops + 1
            /\ lastOp'.belief_id \notin DOMAIN nodes)
        => /\ lastOp'.raised = "ValueError"
           /\ nodes' = nodes /\ nodeOrder' = nodeOrder /\ children' = children]_vars

\* update_and_rescore has raised on a tree that holds scored nodes
InvalidReferenceWitness ==
    /\ lastOp.op = "update_and_rescore" /\ lastOp.raised = "ValueError"
    /\ lastOp.belief_id \notin DOMAIN nodes
    /\ nodes # <<>> /\ scored

\* C5: in the processing order of compute_all_scores every child comes before
\* its parent
StrictPostOrder ==
    scored => \A k \in 1..Len(topoOrder) :
        \A c \in DOMAIN nodes :
            Count(children[topoOrder[k]], c) > 0
                => \E j \in 1..(k - 1) : topoOrder[j] = c

\* transitive closure of a relation over Ids
RECURSIVE Closure(_, _)
Closure(R, k) ==
    IF k = 0 THEN R
    ELSE Closure(R \cup { <<a, c>> \in Ids \X Ids :
                            \E b \in Ids : <<a, b>> \in R /\ <<b, c>> \in R }, k - 1)

\* the parent -> child relation of ArgumentTree._children
ChildRel == { <<p_, c>> \in Ids \X Ids : Count(children[p_], c) > 0 }

\* C6: the parent relation is acyclic and every node id occurs in at most one
\* children list, at most once
TreeStructure ==
    /\ \A x \in Ids : <<x, x>> \notin Closure(ChildRel, NumIds)
    /\ \A x \in Ids :
         Cardinality(UNION { { <<p_, k>> : k \in {j \in 1..Len(children[p_]) :
                                                    children[p_][j] = x} } : p_ \in Ids }) <= 1

\* seq is in non-increasing propagated_score order
NonIncreasing(ns, seq) ==
    \A k \in 1..(Len(seq) - 1) :
        RLeq(ns[seq[k + 1]].propagated_score, ns[seq[k]].propagated_score)

\* C7: get_sorted_children, get_sorted_roots and get_leaderboard return exactly
\* the children / the roots, in non-increasing propagated_score order, and
\* leaderboard entry i (0-based) carries rank i + 1
RankedOutput ==
    /\ lastOp.op = "get_sorted_children" =>
         /\ \A x \in Ids : Count(lastOp.ret, x) =
                IF x \in DOMAIN nodes THEN Count(children[lastOp.belief_id], x) ELSE 0
         /\ NonIncreasing(nodes, lastOp.ret)
    /\ lastOp.op = "get_sorted_roots" =>
         /\ \A x \in Ids : Count(lastOp.ret, x) =
                IF x \in DOMAIN nodes /\ nodes[x].parent_id = None THEN 1 ELSE 0
         /\ NonIncreasing(nodes, lastOp.ret)
    /\ lastOp.op = "get_leaderboard" =>
         /\ \A x \in Ids :
                Cardinality({k \in 1..Len(lastOp.ret) : lastOp.ret[k].belief_id = x}) =
                IF x \in DOMAIN nodes /\ nodes[x].parent_id = None THEN 1 ELSE 0
         /\ \A k \in 1..Len(lastOp.ret) :
                /\ lastOp.ret[k].rank = k
                /\ lastOp.ret[k].propagated_score = nodes[lastOp.ret[k].belief_id].propagated_score
                /\ k < Len(lastOp.ret) =>
                     RLeq(lastOp.ret[k + 1].propagated_score, lastOp.ret[k].propagated_score)

\* get_sorted_children has reordered at least two scored children
RankedOutputWitness ==
    /\ lastOp.op = "get_sorted_children"
    /\ scored
    /\ Len(lastOp.ret) >= 2
    /\ lastOp.ret # get_children(nodes, children, lastOp.belief_id)

\* C8: lowering the truth_score of a supporting child through update_and_rescore
\* on a scored tree never increases its parent's propagated_score, and strictly
\* decreases it when child and parent were both above MIN_RANK_SCORE before
WeakenedSupport ==
    [][\A c \in DOMAIN nodes :
        (/\ lastOp'.op = "update_and_rescore" /\ lastOp'.raised = "no"
         /\ ops' = ops + 1 /\ lastOp'.belief_id = c
         /\ scored
         /\ nodes[c].side = "supporting"
         /\ nodes[c].parent_id \in DOMAIN nodes
         /\ RLt(nodes'[c].truth_score, nodes[c].truth_score)
         /\ nodes'[c].linkage_score = nodes[c].linkage_score
         /\ nodes'[c].importance_score = nodes[c].importance_score
         /\ nodes'[c].uniqueness_score = nodes[c].uniqueness_score)
        => LET p_ == nodes[c].parent_id IN
           /\ RLeq(nodes'[p_].propagated_score, nodes[p_].propagated_score)
           /\ (RLt(MIN_RANK_SCORE, nodes[c].propagated_score)
                /\ RLt(MIN_RANK_SCORE, nodes[p_].propagated_score))
               => RLt(nodes'[p_].propagated_score, nodes[p_].propagated_score)]_vars

\* the tree is exactly Scenario C: root 1 with the supporting leaf 2 and the
\* weakening leaf 3, each listed once
IsScenarioC ==
    /\ DOMAIN nodes = ScenarioIds
    /\ children[1] \in {<<2, 3>>, <<3, 2>>}
    /\ \A i \in Ids \ {1} : children[i] = <<>>
    /\ \A i \in ScenarioIds :
        /\ nodes[i].parent_id = ScenarioParent(i)
        /\ nodes[i].side = ScenarioProfile(i).side
        /\ nodes[i].truth_score = ScenarioProfile(i).truth_score
        /\ nodes[i].linkage_score = ScenarioProfile(i).linkage_score
        /\ nodes[i].importance_score = ScenarioProfile(i).importance_score
        /\ nodes[i].uniqueness_score = ScenarioProfile(i).uniqueness_score

\* C9: in Scenario C after compute_all_scores each leaf's propagated_score is its
\* base rank (0.9*0.8*0.85*1.0 and 0.5*0.6*0.5*1.0), the supporting child is
\* first in get_sorted_children(root), and the root's net impact is positive
ScenarioC ==
    (scored /\ IsScenarioC) =>
        /\ nodes[2].propagated_score = Rat(612, 1000)
        /\ nodes[3].propagated_score = Rat(15, 100)
        /\ Head(get_sorted_children(nodes, children, 1)) = 2
        /\ LET entry == get_leaderboard(nodes, nodeOrder, children)[1]
           IN  RLt(Zero, RSub(entry.impact, entry.counter_impact))

\* Scenario C scored, with the weakening leaf inserted before the supporting one
ScenarioCWitness ==
    /\ scored /\ IsScenarioC
    /\ children[1] = <<3, 2>>
    /\ lastOp.op = "get_sorted_children" /\ lastOp.belief_id = 1
    /\ lastOp.ret = <<2, 3>>

\* C10: whenever the Layer-1 Jaccard score of the compared pair is >= the
\* mechanical threshold (0.85), the blend does not fail and the pair compare
\* returns has combined_score = 1.0 and is_mechanical_duplicate = TRUE,
\* whatever score Layer 2 and Layer 3 gave and whatever the weights are
MechanicalShortCircuit ==
    (cmp.pair = "set"
        /\ RLeq(cmp.cfg.mechanical_threshold, l1_score(cmp.arg_a.claim, cmp.arg_b.claim)))
    => /\ cmp.result.raised # "ZeroDivisionError"
       /\ cmp.result.raised = "no" =>
            /\ cmp.result.combined_score = One
            /\ cmp.result.is_mechanical_duplicate

\* a pair with Jaccard 6/7 (>= 0.85, below 1.0), opposite embeddings, a debate
\* resolved at 0.0 and all-zero weights has been compared
MechanicalShortCircuitWitness ==
    /\ cmp.pair = "set"
    /\ cmp.result.raised = "no"
    /\ cmp.result.layer1_score = Rat(6, 7)
    /\ cmp.result.layer2_score = Rat(-1, 1)
    /\ cmp.result.layer3_score = Zero
    /\ cmp.cfg.layer1_weight = Zero /\ cmp.cfg.layer2_weight = Zero

(* --------------- claims on score_arguments / cluster_arguments --------- *)
\* score_arguments has returned a list for the caller's current arguments
ScoredOk == sa.call \in {"first", "again"} /\ sa.ret.raised = "no"

\* the ScoredArgument of a returned list whose argument has the given id
ResultOf(results, id) == results[CHOOSE k \in 1..Len(results) : results[k].arg.id = id]

\* args[j] comes before args[k] oldest-first, equal times in input order
SortedBefore(args, j, k) ==
    \/ args[j].submitted_at < args[k].submitted_at
    \/ args[j].submitted_at = args[k].submitted_at /\ j < k

InUnit(r) == RLeq(Zero, r) /\ RLeq(r, One)

\* C11: every similarity pair score_arguments obtained from compare has
\* layer2_score and combined_score in [0,1] and every uniqueness_score is in
\* [0,1], on the embedding, engine and trigram paths
ScoreRanges ==
    ScoredOk => \A k \in 1..Len(sa.ret.value) :
        /\ InUnit(sa.ret.value[k].uniqueness_score)
        /\ \A j \in 1..Len(sa.ret.value[k].similarity_pairs) :
            /\ InUnit(sa.ret.value[k].similarity_pairs[j].layer2_score)
            /\ InUnit(sa.ret.value[k].similarity_pairs[j].combined_score)

\* args[k] has the text of another argument and is submitted strictly before
\* every other argument of that text
EarliestOfText(args, k) ==
    /\ \E j \in 1..Len(args) : j # k /\ args[j].claim = args[k].claim
    /\ \A j \in 1..Len(args) :
        (j # k /\ args[j].claim = args[k].claim) => args[k].submitted_at < args[j].submitted_at

ComparedWith(result) ==
    [j \in 1..Len(result.similarity_pairs) |-> result.similarity_pairs[j].arg_b_id]

\* C13 as stated: the similarity_pairs of each argument hold exactly one pair
\* per argument of strictly earlier submitted_at and no other pair
EarlierOnly ==
    ScoredOk => \A k \in 1..Len(sa.retArgs) :
        LET result == ResultOf(sa.ret.value, sa.retArgs[k].id) IN
        \A j \in 1..Len(sa.retArgs) :
            Count(ComparedWith(result), sa.retArgs[j].id)
                = IF sa.retArgs[j].submitted_at < sa.retArgs[k].submitted_at THEN 1 ELSE 0

\* C13 amended: the similarity_pairs of each argument hold exactly one pair
\* per argument that precedes it oldest-first (strictly earlier, or of equal
\* submitted_at and earlier in the list passed) and none with a later one
EarlierOnlyAmended ==
    ScoredOk => \A k \in 1..Len(sa.retArgs) :
        LET result == ResultOf(sa.ret.value, sa.retArgs[k].id) IN
        /\ Len(result.similarity_pairs)
              = Cardinality({j \in 1..Len(sa.retArgs) : SortedBefore(sa.retArgs, j, k)})
        /\ \A j \in 1..Len(sa.retArgs) :
            /\ Count(ComparedWith(result), sa.retArgs[j].id)
                  = IF SortedBefore(sa.retArgs, j, k) THEN 1 ELSE 0
        /\ \A j \in 1..Len(result.similarity_pairs) :
              result.similarity_pairs[j].arg_a_id = sa.retArgs[k].id

\* three arguments scored, two of them submitted at the same time, the third later
EarlierOnlyWitness ==
    /\ ScoredOk /\ Len(sa.retArgs) = 3
    /\ \E j, k \in 1..3 : j < k /\ sa.retArgs[j].submitted_at = sa.retArgs[k].submitted_at
    /\ \E j, k \in 1..3 : sa.retArgs[j].submitted_at < sa.retArgs[k].submitted_at
    /\ \E k \in 1..3 : Len(ResultOf(sa.ret.value, sa.retArgs[k].id).similarity_pairs) = 2

RecordedSim(results, x, y) ==
    LET pair_list == all_pair_list(results)
    IN  pair_list[CHOOSE k \in 1..Len(pair_list) :
                     {pair_list[k].arg_a_id, pair_list[k].arg_b_id} = {x, y}].combined_score

\* two arguments were scored, a third was appended to the list and the list
\* scored again
ThirdScored ==
    /\ ScoredOk /\ sa.call = "first"
    /\ sa.prior.raised = "no" /\ Len(sa.prior.value) = 2
    /\ Len(sa.retArgs) = 3

\* the third argument is no more similar to either of the first two than they
\* are to each other
ThirdUnrelated ==
    LET between == RecordedSim(sa.ret.value, sa.retArgs[1].id, sa.retArgs[2].id)
    IN  /\ RLeq(RecordedSim(sa.ret.value, sa.retArgs[3].id, sa.retArgs[1].id), between)
        /\ RLeq(RecordedSim(sa.ret.value, sa.retArgs[3].id, sa.retArgs[2].id), between)

\* C15 as stated: an unrelated third argument, wherever it falls in submission
\* time, leaves the uniqueness_score of the two existing arguments unchanged
OrderIndependence ==
    (ThirdScored /\ ThirdUnrelated) => \A k \in 1..2 :
        ResultOf(sa.ret.value, sa.retArgs[k].id).uniqueness_score
            = ResultOf(sa.prior.value, sa.retArgs[k].id).uniqueness_score

\* C15 amended: an unrelated third argument leaves the uniqueness_score of the
\* later of the two existing arguments unchanged wherever it falls in
\* submission time, and that of the earlier one unchanged when the third comes
\* after it oldest-first or has combined similarity 0 to it
OrderIndependenceAmended ==
    (ThirdScored /\ ThirdUnrelated) => \A k \in 1..2 :
        (\/ SortedBefore(sa.retArgs, 3 - k, k)
         \/ SortedBefore(sa.retArgs, k, 3)
         \/ RecordedSim(sa.ret.value, sa.retArgs[3].id, sa.retArgs[k].id) = Zero)
            => ResultOf(sa.ret.value, sa.retArgs[k].id).uniqueness_score
                  = ResultOf(sa.prior.value, sa.retArgs[k].id).uniqueness_score

\* an unrelated third argument was compared with the later of the two existing
\* arguments, with a similarity above 0, and that argument kept a uniqueness
\* strictly between 0 and 1
OrderIndependenceWitness ==
    /\ ThirdScored /\ ThirdUnrelated
    /\ \E k \in 1..2 :
        /\ SortedBefore(sa.retArgs, 3 - k, k)
        /\ SortedBefore(sa.retArgs, 3, k)
        /\ RLt(Zero, RecordedSim(sa.ret.value, sa.retArgs[3].id, sa.retArgs[k].id))
        /\ RLt(Zero, ResultOf(sa.ret.value, sa.retArgs[k].id).uniqueness_score)
        /\ RLt(ResultOf(sa.ret.value, sa.retArgs[k].id).uniqueness_score, One)

\* C16: of two scored arguments with the same base_score and submission age the
\* one with the higher uniqueness_score has no lower effective_contribution,
\* and of two with the same base_score and uniqueness_score the one with the
\* higher novelty_multiplier has no lower effective_contribution
Monotonicity ==
    ScoredOk => \A i, j \in 1..Len(sa.ret.value) :
        LET ri == sa.ret.value[i]
            rj == sa.ret.value[j]
        IN  /\ (/\ ri.arg.base_score = rj.arg.base_score
                /\ ri.arg.submitted_at = rj.arg.submitted_at
                /\ RLeq(ri.uniqueness_score, rj.uniqueness_score))
                => RLeq(ri.effective_contribution, rj.effective_contribution)
            /\ (/\ ri.arg.base_score = rj.arg.base_score
                /\ ri.uniqueness_score = rj.uniqueness_score
                /\ RLeq(ri.novelty_multiplier, rj.novelty_multiplier))
                => RLeq(ri.effective_contribution, rj.effective_contribution)

\* two arguments of equal base_score and age on either side of the novelty
\* threshold, and two of equal base_score and uniqueness with different boosts
MonotonicityWitness ==
    /\ ScoredOk
    /\ \E i, j \in 1..Len(sa.ret.value) :
        LET ri == sa.ret.value[i]
            rj == sa.ret.value[j]
        IN  /\ ri.arg.base_score = rj.arg.base_score
            /\ ri.arg.submitted_at = rj.arg.submitted_at
            /\ RLt(Zero, ri.uniqueness_score)
            /\ RLt(ri.uniqueness_score, NOVELTY_THRESHOLD)
            /\ RLeq(NOVELTY_THRESHOLD, rj.uniqueness_score)
            /\ RLt(NOVELTY_FLOOR, rj.novelty_multiplier)
            /\ RLt(ri.effective_contribution, rj.effective_contribution)

\* C17: score_arguments returns one ScoredArgument per argument passed, the
\* i-th for the i-th argument of the list
InputOrder ==
    ScoredOk =>
        /\ Len(sa.ret.value) = Len(sa.retArgs)
        /\ \A i \in 1..Len(sa.retArgs) : sa.ret.value[i].arg = sa.retArgs[i]

\* three arguments were scored, the first passed submitted after the last
InputOrderWitness ==
    /\ ScoredOk /\ Len(sa.retArgs) = 3
    /\ sa.retArgs[1].submitted_at > sa.retArgs[3].submitted_at
    /\ Len(sa.ret.value[1].similarity_pairs) >= 1
    /\ sa.ret.value[3].similarity_pairs = <<>>

\* the argument of the scored list with the given id
ArgOf(id) == sa.retArgs[CHOOSE k \in 1..Len(sa.retArgs) : sa.retArgs[k].id = id]

\* the two claims of Scenario A
ScenarioAClaims ==
    { <<"Tax", "rates", "should", "be", "lower">>, <<"Taxes", "should", "be", "reduced">> }

\* C18: Scenario A: whenever score_arguments compares "Tax rates should be
\* lower" with "Taxes should be reduced", layer 1 scores the pair 1.0, compare
\* gives combined_score 1.0, and the later submitted of the two gets uniqueness
\* 0 and effective_contribution 0
ScenarioA ==
    ScoredOk => \A k \in 1..Len(sa.ret.value) :
        \A j \in 1..Len(sa.ret.value[k].similarity_pairs) :
            LET pair == sa.ret.value[k].similarity_pairs[j] IN
            {ArgOf(pair.arg_a_id).claim, ArgOf(pair.arg_b_id).claim} = ScenarioAClaims
                => /\ pair.layer1_score = One
                   /\ pair.combined_score = One
                   /\ sa.ret.value[k].uniqueness_score = Zero
                   /\ sa.ret.value[k].effective_contribution = Zero

\* cluster_arguments has clustered the list score_arguments returned
ClustersMade == ScoredOk /\ sa.clusters.made

\* the highest base_score among the members of a cluster
RECURSIVE MaxBase(_)
MaxBase(ids) ==
    IF Len(ids) = 1 THEN ArgOf(ids[1]).base_score
    ELSE RMax(ArgOf(ids[1]).base_score, MaxBase(Tail(ids)))

\* C19: the cluster_score of every cluster is at most what one fully novel
\* argument (uniqueness 1.0, at most the peak novelty boost) with the cluster's
\* highest base_score contributes
ClusterScoreBound ==
    ClustersMade => \A c \in 1..Len(sa.clusters.value) :
        RLeq(sa.clusters.value[c].cluster_score,
             effective_contribution(MaxBase(sa.clusters.value[c].member_ids), One,
                                    NOVELTY_PEAK_MULTIPLIER))

\* the cluster (index) that holds the argument id
ClusterOf(id) ==
    CHOOSE c \in 1..Len(sa.clusters.value) :
        \E k \in 1..Len(sa.clusters.value[c].member_ids) : sa.clusters.value[c].member_ids[k] = id

\* C20: any two scored arguments whose recorded combined similarity is at
\* least similarity_threshold are in the same cluster, and the representative
\* of each cluster is a member of highest base_score
SingleLink ==
    ClustersMade =>
        /\ \A i, j \in 1..Len(sa.retArgs) :
            (i # j /\ RLeq(sa.clusters.threshold,
                           RecordedSim(sa.ret.value, sa.retArgs[i].id, sa.retArgs[j].id)))
                => ClusterOf(sa.retArgs[i].id) = ClusterOf(sa.retArgs[j].id)
        /\ \A c \in 1..Len(sa.clusters.value) :
            /\ \E k \in 1..Len(sa.clusters.value[c].member_ids) :
                  sa.clusters.value[c].member_ids[k] = sa.clusters.value[c].representative_id
            /\ ArgOf(sa.clusters.value[c].representative_id).base_score
                  = MaxBase(sa.clusters.value[c].member_ids)

(* ------------------- claims on the layers of compare ------------------- *)
\* C21: compare, through SemanticSimilarityScorer.score, never raises because
\* of embeddings: whatever embeddings the two arguments carry and whether the
\* embedding support is installed, missing or failing, a SimilarityPair is
\* returned (the only exception left is the division by a zero weight sum)
GracefulDegradation ==
    cmp.pair = "set" => cmp.result.raised \in {"no", "ZeroDivisionError"}

(* ----------------------- claims on degenerate input -------------------- *)
\* score_arguments has been called on the caller's current list
ScoreCalled == sa.call \in {"first", "again"}

\* the text of retArgs[k] is empty after normalization
EmptyText(k) == NormalizeSet(sa.retArgs[k].claim) = {}

PenalizeStep == ops' = ops + 1 /\ lastOp'.op = "check_and_penalize"

\* the ids named as target by the records of a returned penalty list
Targets(pens) == {pens[k].target_id : k \in 1..Len(pens)}

\* x is listed before y in a sibling group of the pass
ListedBefore(ns, ord, ch, x, y) ==
    \E g \in penalty_groups(ns, ord, ch) :
        LET sibs == siblings_of(ns, ord, ch, g)
        IN  \E i, j \in 1..Len(sibs) : i < j /\ sibs[i] = x /\ sibs[j] = y

\* C23: in every penalty record of a check_and_penalize call the target is
\* the sibling whose propagated_score at the time of the call is the lower
\* one, the later-listed one on a tie; the uniqueness_score the record reports
\* is the target's, and a node that no record names as target (the
\* higher-scoring sibling of a pair) keeps its uniqueness_score
PenaltyTarget ==
    [][PenalizeStep =>
        /\ \A k \in 1..Len(lastOp'.ret) :
            LET r == lastOp'.ret[k]
                t == nodes[r.target_id].propagated_score
                o == nodes[r.similar_to_id].propagated_score
            IN  /\ RLeq(t, o)
                /\ t = o => ListedBefore(nodes, nodeOrder, children,
                                         r.similar_to_id, r.target_id)
                /\ RLt(UNIQUENESS_PENALTY_THRESHOLD, r.similarity)
                /\ r.new_uniqueness = RMax(RMul(r.old_uniqueness, penalty_of(r.similarity)),
                                           PENALTY_FLOOR)
        /\ \A id \in DOMAIN nodes :
            LET mine == {k \in 1..Len(lastOp'.ret) : lastOp'.ret[k].target_id = id}
            IN  IF mine = {}
                THEN nodes'[id].uniqueness_score = nodes[id].uniqueness_score
                ELSE /\ lastOp'.ret[CHOOSE k \in mine : \A j \in mine : k <= j].old_uniqueness
                          = nodes[id].uniqueness_score
                     /\ lastOp'.ret[CHOOSE k \in mine : \A j \in mine : j <= k].new_uniqueness
                          = nodes'[id].uniqueness_score
    ]_vars

\* a pass over two scored root siblings has penalized the earlier-listed one,
\* whose propagated_score was the lower, and left the other at 1.0
PenaltyTargetWitness ==
    /\ lastOp.op = "check_and_penalize"
    /\ Len(lastOp.ret) = 1
    /\ lastOp.ret[1].target_id = 1 /\ lastOp.ret[1].similar_to_id = 2
    /\ nodeOrder = <<1, 2>>
    /\ RLt(nodes[1].propagated_score, nodes[2].propagated_score)
    /\ nodes[2].uniqueness_score = One

\* the pairs of distinct nodes of ns that have the same parent_id (the roots
\* forming one group)
SiblingNodePairs(ns) ==
    { pr \in SUBSET (DOMAIN ns) :
        /\ Cardinality(pr) = 2
        /\ \A x, y \in pr : ns[x].parent_id = ns[y].parent_id }

\* the sibling pairs of the call whose similarity was above the threshold
OverThreshold(ns, simf) ==
    { pr \in SiblingNodePairs(ns) \cap DOMAIN simf : RLt(UNIQUENESS_PENALTY_THRESHOLD, simf[pr]) }

\* C24: one check_and_penalize call returns exactly one penalty record for
\* each pair of siblings (same parent_id) whose similarity is above the
\* threshold and none for any other pair, so the list has as many entries as
\* there are over-threshold sibling pairs; each record applies one penalty to
\* one node of its pair
OnePenaltyPerPair ==
    [][PenalizeStep =>
        LET pens == lastOp'.ret
            over == OverThreshold(nodes, lastOp'.sim)
        IN  /\ Len(pens) = Cardinality(over)
            /\ \A pr \in over :
                  Cardinality({k \in 1..Len(pens) :
                                 {pens[k].target_id, pens[k].similar_to_id} = pr}) = 1
            /\ \A k \in 1..Len(pens) : {pens[k].target_id, pens[k].similar_to_id} \in over
    ]_vars

\* the fields of a node other than uniqueness_score
FrameFields(n) ==
    <<n.belief_id, n.parent_id, n.side, n.truth_score, n.linkage_score, n.importance_score,
      n.reason_rank, n.propagated_score>>

\* every sibling group of the tree has fewer than 2 nodes
NoSiblingGroup(ns) == SiblingNodePairs(ns) = {}

\* C27: a check_and_penalize call changes nothing but the uniqueness_score of
\* the targets it reports: the tree keeps its nodes and lists and every node
\* keeps its propagated_score, reason_rank, truth, linkage and importance; when
\* no sibling pair is above the threshold, every sibling group has fewer than
\* 2 nodes or the tree is empty, the call returns [] and changes no node
RedundancyFrame ==
    [][PenalizeStep =>
        /\ DOMAIN nodes' = DOMAIN nodes
        /\ nodeOrder' = nodeOrder /\ children' = children
        /\ \A id \in DOMAIN nodes :
            /\ FrameFields(nodes'[id]) = FrameFields(nodes[id])
            /\ id \notin Targets(lastOp'.ret)
                  => nodes'[id].uniqueness_score = nodes[id].uniqueness_score
        /\ (OverThreshold(nodes, lastOp'.sim) = {} \/ NoSiblingGroup(nodes) \/ nodes = <<>>)
              => (lastOp'.ret = <<>> /\ nodes' = nodes)
    ]_vars

\* C28: no check_and_penalize pass leaves a node's uniqueness_score higher
\* than it was before the pass, and the uniqueness_score of every node a pass
\* penalized is >= 0.01 after it
PenaltiesOnlyLower ==
    [][PenalizeStep =>
        /\ \A id \in DOMAIN nodes :
              RLeq(nodes'[id].uniqueness_score, nodes[id].uniqueness_score)
        /\ \A id \in Targets(lastOp'.ret) :
              RLeq(PENALTY_FLOOR, nodes'[id].uniqueness_score)
    ]_vars

(* ---------------------- claims on the community layer ------------------ *)
\* compare has returned a SimilarityPair for the pair drawn
Compared == cmp.pair = "set" /\ cmp.result.raised = "no"

\* the debate passed is absent or not resolved
Gated == ~(cmp.debate.present /\ cmp.debate.resolved)

\* (l1*w1 + l2*w2) / (w1 + w2) on the layer scores compare reported
Average12 ==
    RDiv(RAdd(RMul(cmp.result.layer1_score, cmp.cfg.layer1_weight),
              RMul(cmp.result.layer2_score, cmp.cfg.layer2_weight)),
         RAdd(cmp.cfg.layer1_weight, cmp.cfg.layer2_weight))

\* (l1*w1 + l2*w2 + l3*w3) / (w1 + w2 + w3) with the debate's score as l3
Average123 ==
    RDiv(RAdd(RAdd(RMul(cmp.result.layer1_score, cmp.cfg.layer1_weight),
                   RMul(cmp.result.layer2_score, cmp.cfg.layer2_weight)),
              RMul(cmp.debate.community_similarity_score, cmp.cfg.layer3_weight)),
         RAdd(RAdd(cmp.cfg.layer1_weight, cmp.cfg.layer2_weight), cmp.cfg.layer3_weight))

Clamp01(r) == RMax(Zero, RMin(One, r))

\* C25: with no debate or an unresolved one compare returns the combined_score
\* of compare(a, b), which is the Layer-1/Layer-2 weighted average over
\* w1 + w2; a resolved debate contributes its community_similarity_score
\* weighted by w3 over w1 + w2 + w3
CommunityGating ==
    Compared =>
        /\ Gated =>
              /\ cmp.result.combined_score
                    = compare(cmp.cfg, cmp.arg_a, cmp.arg_b, NoDebate, cmp.env).combined_score
              /\ cmp.result.combined_score = Average12
        /\ ~Gated => cmp.result.combined_score = Average123

\* C25 amended: with no debate or an unresolved one compare reports no Layer 3
\* and the combined_score of compare(a, b); for a pair below the mechanical
\* threshold that is the Layer-1/Layer-2 weighted average over w1 + w2, and
\* with a resolved debate the three-layer average over w1 + w2 + w3, either
\* clamped to [0,1]; for a mechanical duplicate it is 1.0 whatever the debate
CommunityGatingAmended ==
    Compared =>
        /\ Gated =>
              /\ cmp.result.layer3_score = NoL3
              /\ cmp.result.combined_score
                    = compare(cmp.cfg, cmp.arg_a, cmp.arg_b, NoDebate, cmp.env).combined_score
        /\ ~Gated => cmp.result.layer3_score = cmp.debate.community_similarity_score
        /\ cmp.result.is_mechanical_duplicate => cmp.result.combined_score = One
        /\ (~cmp.result.is_mechanical_duplicate /\ Gated)
              => cmp.result.combined_score = Clamp01(Average12)
        /\ (~cmp.result.is_mechanical_duplicate /\ ~Gated)
              => cmp.result.combined_score = Clamp01(Average123)

\* a pair below the mechanical threshold has been compared by the scorer that
\* weights the community layer, with an open debate that already stores the
\* score 1.0: the score is left out, (0.3*0 + 0.5*0.2) / 0.8
CommunityGatingWitness ==
    /\ Compared
    /\ cmp.cfg.layer3_weight = Rat(2, 10)
    /\ cmp.result.layer1_score = Zero /\ cmp.result.layer2_score = Rat(1, 5)
    /\ cmp.debate.present /\ ~cmp.debate.resolved
    /\ cmp.debate.community_similarity_score = One
    /\ cmp.result.layer3_score = NoL3
    /\ cmp.result.combined_score = Rat(1, 8)

(* ------------------------ claims on normalize -------------------------- *)
\* text with the word w put in before position i
Inserted(text, i, w) == SubSeq(text, 1, i - 1) \o <<w>> \o SubSeq(text, i, Len(text))

\* text_b is text_a with one word that has no known antonym negated by a
\* negation word
PlainNegation(text_a, text_b) ==
    \E i \in 1..Len(text_a), w \in NEGATION_WORDS :
        /\ Tokenize(<<text_a[i]>>) # <<>>
        /\ Antonym(Tokenize(<<text_a[i]>>)[1]) = NoAntonym
        /\ text_b = Inserted(text_a, i, w)

\* text_b is text_a with one word replaced by a negation word and a word whose
\* known antonym it is
NegatedAntonym(text_a, text_b) ==
    \E i \in 1..Len(text_a), j \in 1..Len(text_b) :
        /\ j < Len(text_b)
        /\ text_b[j] \in NEGATION_WORDS
        /\ Antonym(text_b[j + 1]) = text_a[i]
        /\ SubSeq(text_b, 1, j - 1) = SubSeq(text_a, 1, i - 1)
        /\ SubSeq(text_b, j + 2, Len(text_b)) = SubSeq(text_a, i + 1, Len(text_a))

\* C29: a claim in which a word is replaced by a negation word and its known
\* antonym normalizes like the claim itself (Layer 1 scores the pair 1.0),
\* and a claim and its plain negation never normalize to the same token set
\* (Layer 1 scores the pair below 1.0)
NegationHandling ==
    cmp.pair = "set" =>
        /\ NegatedAntonym(cmp.arg_a.claim, cmp.arg_b.claim) => cmp.result.layer1_score = One
        /\ PlainNegation(cmp.arg_a.claim, cmp.arg_b.claim)
              => (cmp.result.layer1_score # One /\ ~cmp.result.is_mechanical_duplicate)

(* --------------------- claims on the novelty premium ------------------- *)
\* hours between the submission of a scored argument and now, not below 0
AgeOf(r) == IF sa.now - r.arg.submitted_at < 0 THEN 0 ELSE sa.now - r.arg.submitted_at

\* C26: the novelty_multiplier of every scored argument is exactly the floor
\* when its uniqueness_score is below novelty_threshold, whatever its age;
\* otherwise it lies in [floor, peak], equals the peak when submitted_at is at
\* or after now, and is no higher for an older argument than for a newer one;
\* it is never below the floor
NoveltyBounds ==
    ScoredOk => \A i \in 1..Len(sa.ret.value) :
        LET r == sa.ret.value[i]
            boosted == ~RLt(r.uniqueness_score, NOVELTY_THRESHOLD)
        IN  /\ ~boosted => r.novelty_multiplier = NOVELTY_FLOOR
            /\ RLeq(NOVELTY_FLOOR, r.novelty_multiplier)
            /\ RLeq(r.novelty_multiplier, NOVELTY_PEAK_MULTIPLIER)
            /\ (boosted /\ r.arg.submitted_at >= sa.now)
                  => r.novelty_multiplier = NOVELTY_PEAK_MULTIPLIER
            /\ \A j \in 1..Len(sa.ret.value) :
                  (/\ boosted
                   /\ ~RLt(sa.ret.value[j].uniqueness_score, NOVELTY_THRESHOLD)
                   /\ AgeOf(r) <= AgeOf(sa.ret.value[j]))
                  => RLeq(sa.ret.value[j].novelty_multiplier, r.novelty_multiplier)

\* three arguments scored three half-lives after the first submission: a
\* novel one of age 72 h (1 + 0.25/8), a novel one of age 48 h (1 + 0.25/4)
\* and a duplicate of age 48 h held at the floor
NoveltyBoundsWitness ==
    /\ ScoredOk
    /\ sa.now = 3 * NOVELTY_HALFLIFE_HOURS
    /\ Len(sa.ret.value) = 3
    /\ sa.ret.value[1].arg.submitted_at = 0
    /\ sa.ret.value[1].novelty_multiplier = Rat(33, 32)
    /\ sa.ret.value[2].arg.submitted_at = NOVELTY_HALFLIFE_HOURS
    /\ ~RLt(sa.ret.value[2].uniqueness_score, NOVELTY_THRESHOLD)
    /\ sa.ret.value[2].novelty_multiplier = Rat(17, 16)
    /\ sa.ret.value[3].arg.submitted_at = NOVELTY_HALFLIFE_HOURS
    /\ RLt(sa.ret.value[3].uniqueness_score, NOVELTY_THRESHOLD)
    /\ sa.ret.value[3].novelty_multiplier = NOVELTY_FLOOR

(* ------------------ claims on support and opposition ------------------- *)
\* the step is add_and_rescore of a new node under a node of a scored tree
AddChildStep ==
    /\ ops' = ops + 1
    /\ lastOp'.op = "add_and_rescore"
    /\ scored
    /\ lastOp'.belief_id \notin DOMAIN nodes
    /\ nodes'[lastOp'.belief_id].parent_id \in DOMAIN nodes

\* C30: add_and_rescore of a new supporting child never lowers the
\* propagated_score of the node it is added to, a leaf included, and
\* add_and_rescore of a new weakening child never raises it
SupportAddsOppositionSubtracts ==
    [][AddChildStep =>
        LET child == nodes'[lastOp'.belief_id]
            p == child.parent_id
        IN  /\ child.side = "supporting"
                  => RLeq(nodes[p].propagated_score, nodes'[p].propagated_score)
            /\ child.side = "weakening"
                  => RLeq(nodes'[p].propagated_score, nodes[p].propagated_score)]_vars

====
